---- MODULE Spec2Model ----
(***************************************************************************)
(* Raworc Bench client: the Token Store (TokenManager over two cookies),   *)
(* the API Gateway Client (request / response interceptors, uniform        *)
(* results) and the Auth State Controller (authReducer, checkAuth, login,  *)
(* logout, clearError, the logout-event listener and the token-check       *)
(* interval of AuthProvider).                                              *)
(*                                                                         *)
(* Execution is the browser's single-threaded event loop: one action is    *)
(* one task together with the microtasks it triggers, so a handler runs    *)
(* atomically from one network-call boundary to the next.                  *)
(***************************************************************************)
EXTENDS Integers, Sequences, FiniteSets, Bags, TLC

\* ------------------------------------------------------------------ bounds
\* The clock runs from 0 to MaxTime (abstract time units).
MaxTime == 2
\* At most MaxCalls HTTP requests are in flight at the same time.
MaxCalls == 2
\* The server issues tokens that expire TokenLifetime units after issue.
TokenLifetime == 1
\* The handlers of the views start at most MaxRequests requests.
MaxRequests == 2

\* The backend holds at most MaxEntries workspaces and MaxEntries sessions.
MaxEntries == 2

\* --------------------------------------------------------------- JS values
Undefined == "<undefined>"
Null == "<null>"
NaN == -1

\* JavaScript truthiness of a string-or-undefined value (!v is Falsy(v)).
Falsy(v) == v \in {Undefined, Null, ""}

\* a || b
JsOr(a, b) == IF Falsy(a) THEN b ELSE a

\* Date.prototype.toISOString for the instants of the model: instant t is
\* written as the (t+1)-th string of this table.
IsoTable == <<"T00", "T01", "T02", "T03", "T04", "T05", "T06", "T07", "T08", "T09">>

toISOString(t) == IsoTable[t + 1]

\* new Date(s): the instant a string denotes, NaN (Invalid Date) for a string
\* that is not a date.
DateParse(s) ==
    IF \E i \in 1..Len(IsoTable) : IsoTable[i] = s
    THEN (CHOOSE i \in 1..Len(IsoTable) : IsoTable[i] = s) - 1
    ELSE NaN

\* d1 <= d2 on Date values: every comparison with Invalid Date is false.
DateLe(d1, d2) == d1 # NaN /\ d2 # NaN /\ d1 <= d2

\* ------------------------------------------------------------ Token Store
\* The cookie jar holds the two entries TOKEN_KEY and EXPIRES_KEY.
EmptyJar == [token |-> Undefined, expires |-> Undefined]

\* Mutant of setToken: the expiry cookie is not written.
setToken_tokenOnly(jar, token, expiresAt) == [token |-> token, expires |-> Undefined]

\* TokenManager.setToken: both cookies are written.
setToken(jar, token, expiresAt) == [token |-> token, expires |-> expiresAt]

\* Mutant of clearToken: only the token cookie is removed.
clearToken_tokenOnly(jar) == [jar EXCEPT !.token = Undefined]

\* TokenManager.clearToken: both cookies are removed.
clearToken(jar) == EmptyJar

\* Mutant of getToken: a token is still returned at the instant it expires
\* (< for <=).
getToken_strictlyBefore(jar, t) ==
    IF Falsy(jar.token) \/ Falsy(jar.expires)
    THEN [ret |-> Null, jar |-> jar]
    ELSE IF DateParse(jar.expires) # NaN /\ DateParse(jar.expires) < t
         THEN [ret |-> Null, jar |-> clearToken(jar)]
         ELSE [ret |-> jar.token, jar |-> jar]

\* Mutant of getToken: an expired token is not returned, and not removed.
getToken_keepsExpired(jar, t) ==
    IF Falsy(jar.token) \/ Falsy(jar.expires)
    THEN [ret |-> Null, jar |-> jar]
    ELSE IF DateLe(DateParse(jar.expires), t)
         THEN [ret |-> Null, jar |-> jar]
         ELSE [ret |-> jar.token, jar |-> jar]

\* TokenManager.getToken at time t: the value returned and the jar it leaves.
getToken(jar, t) ==
    IF Falsy(jar.token) \/ Falsy(jar.expires)
    THEN [ret |-> Null, jar |-> jar]
    ELSE IF DateLe(DateParse(jar.expires), t)
         THEN [ret |-> Null, jar |-> clearToken(jar)]
         ELSE [ret |-> jar.token, jar |-> jar]

\* Mutant of isAuthenticated: the token cookie is looked up directly, without
\* the expiry check of getToken.
tokenIsAuthenticated_noExpiryCheck(jar, t) == [ret |-> ~Falsy(jar.token), jar |-> jar]

\* TokenManager.isAuthenticated.
tokenIsAuthenticated(jar, t) ==
    [ret |-> getToken(jar, t).ret # Null, jar |-> getToken(jar, t).jar]

\* TokenManager.getAuthHeader: `Bearer ${token}` or null.
Bearer(token) == "Bearer " \o token

getAuthHeader(jar, t) ==
    [ret |-> IF Falsy(getToken(jar, t).ret) THEN Null
             ELSE Bearer(getToken(jar, t).ret),
     jar |-> getToken(jar, t).jar]

\* ------------------------------------------------------------ authReducer
initialState ==
    [user |-> Null, isAuthenticated |-> FALSE, isLoading |-> TRUE, error |-> Null]

AUTH_START == [type |-> "AUTH_START", payload |-> Null]
AUTH_SUCCESS(user) == [type |-> "AUTH_SUCCESS", payload |-> user]
AUTH_ERROR(message) == [type |-> "AUTH_ERROR", payload |-> message]
AUTH_LOGOUT == [type |-> "AUTH_LOGOUT", payload |-> Null]
CLEAR_ERROR == [type |-> "CLEAR_ERROR", payload |-> Null]

\* Mutant of authReducer: AUTH_ERROR keeps the user and the authenticated flag.
authReducer_errorKeepsUser(s, action) ==
    CASE action.type = "AUTH_START" ->
            [s EXCEPT !.isLoading = TRUE, !.error = Null]
      [] action.type = "AUTH_SUCCESS" ->
            [s EXCEPT !.user = action.payload, !.isAuthenticated = TRUE,
                      !.isLoading = FALSE, !.error = Null]
      [] action.type = "AUTH_ERROR" ->
            [s EXCEPT !.isLoading = FALSE, !.error = action.payload]
      [] action.type = "AUTH_LOGOUT" ->
            [s EXCEPT !.user = Null, !.isAuthenticated = FALSE,
                      !.isLoading = FALSE, !.error = Null]
      [] action.type = "CLEAR_ERROR" ->
            [s EXCEPT !.error = Null]
      [] OTHER -> s

\* Mutant of authReducer: CLEAR_ERROR also ends the loading state.
authReducer_clearErrorEndsLoading(s, action) ==
    CASE action.type = "AUTH_START" ->
            [s EXCEPT !.isLoading = TRUE, !.error = Null]
      [] action.type = "AUTH_SUCCESS" ->
            [s EXCEPT !.user = action.payload, !.isAuthenticated = TRUE,
                      !.isLoading = FALSE, !.error = Null]
      [] action.type = "AUTH_ERROR" ->
            [s EXCEPT !.user = Null, !.isAuthenticated = FALSE,
                      !.isLoading = FALSE, !.error = action.payload]
      [] action.type = "AUTH_LOGOUT" ->
            [s EXCEPT !.user = Null, !.isAuthenticated = FALSE,
                      !.isLoading = FALSE, !.error = Null]
      [] action.type = "CLEAR_ERROR" ->
            [s EXCEPT !.isLoading = FALSE, !.error = Null]
      [] OTHER -> s

\* Mutant of authReducer: AUTH_ERROR leaves the controller loading.
authReducer_errorKeepsLoading(s, action) ==
    CASE action.type = "AUTH_START" ->
            [s EXCEPT !.isLoading = TRUE, !.error = Null]
      [] action.type = "AUTH_SUCCESS" ->
            [s EXCEPT !.user = action.payload, !.isAuthenticated = TRUE,
                      !.isLoading = FALSE, !.error = Null]
      [] action.type = "AUTH_ERROR" ->
            [s EXCEPT !.user = Null, !.isAuthenticated = FALSE,
                      !.error = action.payload]
      [] action.type = "AUTH_LOGOUT" ->
            [s EXCEPT !.user = Null, !.isAuthenticated = FALSE,
                      !.isLoading = FALSE, !.error = Null]
      [] action.type = "CLEAR_ERROR" ->
            [s EXCEPT !.error = Null]
      [] OTHER -> s

\* Mutant of authReducer: AUTH_START keeps the error message.
authReducer_startKeepsError(s, action) ==
    CASE action.type = "AUTH_START" ->
            [s EXCEPT !.isLoading = TRUE]
      [] action.type = "AUTH_SUCCESS" ->
            [s EXCEPT !.user = action.payload, !.isAuthenticated = TRUE,
                      !.isLoading = FALSE, !.error = Null]
      [] action.type = "AUTH_ERROR" ->
            [s EXCEPT !.user = Null, !.isAuthenticated = FALSE,
                      !.isLoading = FALSE, !.error = action.payload]
      [] action.type = "AUTH_LOGOUT" ->
            [s EXCEPT !.user = Null, !.isAuthenticated = FALSE,
                      !.isLoading = FALSE, !.error = Null]
      [] action.type = "CLEAR_ERROR" ->
            [s EXCEPT !.error = Null]
      [] OTHER -> s

authReducer(s, action) ==
    CASE action.type = "AUTH_START" ->
            [s EXCEPT !.isLoading = TRUE, !.error = Null]
      [] action.type = "AUTH_SUCCESS" ->
            [s EXCEPT !.user = action.payload, !.isAuthenticated = TRUE,
                      !.isLoading = FALSE, !.error = Null]
      [] action.type = "AUTH_ERROR" ->
            [s EXCEPT !.user = Null, !.isAuthenticated = FALSE,
                      !.isLoading = FALSE, !.error = action.payload]
      [] action.type = "AUTH_LOGOUT" ->
            [s EXCEPT !.user = Null, !.isAuthenticated = FALSE,
                      !.isLoading = FALSE, !.error = Null]
      [] action.type = "CLEAR_ERROR" ->
            [s EXCEPT !.error = Null]
      [] OTHER -> s

\* ------------------------------------------------------ API Gateway Client
\* An endpoint string is a sequence of lexemes, so that String.includes is a
\* search for a contiguous run of lexemes.  "/" is a lexeme of its own; an id
\* is the sequence of its lexemes (the id "health-ws" is <<"health", "-ws">>).
WorkspaceIds == {<<"ws-1">>, <<"health", "-ws">>}
SessionIds == {<<"sess-1">>, <<"version", "-2">>}
NoId == <<>>

includes(str, pat) ==
    \E i \in 0..(Len(str) - Len(pat)) : SubSeq(str, i + 1, i + Len(pat)) = pat

publicEndpoints ==
    {<<"/", "health">>, <<"/", "version">>, <<"/", "auth", "/", "internal">>}

isPublicEndpoint(url) == \E endpoint \in publicEndpoints : includes(url, endpoint)

\* The gateway methods that take no part in the auth flow of AuthProvider.
ResourceMethods ==
    {"externalAuth", "healthCheck", "getVersion",
     "getWorkspaces", "getWorkspace", "createWorkspace", "updateWorkspace",
     "deleteWorkspace", "getSessions", "getSession", "createSession",
     "startSession", "stopSession", "deleteSession"}

\* Which ids a method takes.
WorkspaceArgs(method) ==
    IF method \in {"getWorkspace", "updateWorkspace", "deleteWorkspace", "getSessions",
                   "getSession", "createSession", "startSession", "stopSession",
                   "deleteSession"}
    THEN WorkspaceIds ELSE {NoId}

SessionArgs(method) ==
    IF method \in {"getSession", "startSession", "stopSession", "deleteSession"}
    THEN SessionIds ELSE {NoId}

\* The endpoint each gateway method passes to request().
Endpoint(method, wsId, sessId) ==
    CASE method = "login" -> <<"/", "auth", "/", "internal">>
      [] method = "externalAuth" -> <<"/", "auth", "/", "external">>
      [] method = "getCurrentUser" -> <<"/", "auth", "/", "me">>
      [] method = "healthCheck" -> <<"/", "health">>
      [] method = "getVersion" -> <<"/", "version">>
      [] method \in {"getWorkspaces", "createWorkspace"} -> <<"/", "workspaces">>
      [] method \in {"getWorkspace", "updateWorkspace", "deleteWorkspace"} ->
            <<"/", "workspaces", "/">> \o wsId
      [] method \in {"getSessions", "createSession"} ->
            <<"/", "workspaces", "/">> \o wsId \o <<"/", "sessions">>
      [] method \in {"getSession", "deleteSession"} ->
            <<"/", "workspaces", "/">> \o wsId \o <<"/", "sessions", "/">> \o sessId
      [] method = "startSession" ->
            <<"/", "workspaces", "/">> \o wsId \o <<"/", "sessions", "/">> \o sessId
                \o <<"/", "start">>
      [] method = "stopSession" ->
            <<"/", "workspaces", "/">> \o wsId \o <<"/", "sessions", "/">> \o sessId
                \o <<"/", "stop">>

\* The request interceptor at time t: the Authorization header the request
\* leaves with, and the jar afterwards (getAuthHeader may clear it).
NoHeader == Undefined

requestInterceptor(url, jar, t) ==
    IF ~isPublicEndpoint(url)
    THEN [Authorization |-> IF Falsy(getAuthHeader(jar, t).ret) THEN NoHeader
                            ELSE getAuthHeader(jar, t).ret,
          jar |-> getAuthHeader(jar, t).jar]
    ELSE [Authorization |-> NoHeader, jar |-> jar]

\* What comes back for a request.  kind "ok": a 2xx response with body `data`;
\* "status": an error status with the body's message field; "noresponse": the
\* request was sent and nothing came back; "setup": an exception before the
\* request was sent.  `message` is the message of the axios error.
NoData == <<>>

OkOutcome(data) ==
    [kind |-> "ok", status |-> 200, data |-> data, bodyMessage |-> Undefined,
     message |-> Undefined]
StatusOutcome(status, bodyMessage) ==
    [kind |-> "status", status |-> status, data |-> NoData, bodyMessage |-> bodyMessage,
     message |-> "Request failed with status code " \o ToString(status)]
NoResponseOutcome ==
    [kind |-> "noresponse", status |-> 0, data |-> NoData, bodyMessage |-> Undefined,
     message |-> "Network Error"]
SetupOutcome ==
    [kind |-> "setup", status |-> 0, data |-> NoData, bodyMessage |-> Undefined,
     message |-> ""]

NoError == [message |-> Undefined, code |-> Undefined]

\* Mutant of transformError: a request that got no response is reported like
\* a failure before sending.
transformError_networkAsUnknown(error) ==
    IF error.kind = "status"
    THEN [success |-> FALSE, data |-> NoData,
          error |-> [message |-> JsOr(JsOr(error.bodyMessage, error.message),
                                      "Server error occurred"),
                     code |-> ToString(error.status)]]
    ELSE [success |-> FALSE, data |-> NoData,
          error |-> [message |-> JsOr(error.message, "Unknown error occurred"),
                     code |-> "UNKNOWN_ERROR"]]

\* RaworcApiClient.transformError.
transformError(error) ==
    IF error.kind = "status"
    THEN [success |-> FALSE, data |-> NoData,
          error |-> [message |-> JsOr(JsOr(error.bodyMessage, error.message),
                                      "Server error occurred"),
                     code |-> ToString(error.status)]]
    ELSE IF error.kind = "noresponse"
    THEN [success |-> FALSE, data |-> NoData,
          error |-> [message |-> "Network error - please check your connection",
                     code |-> "NETWORK_ERROR"]]
    ELSE [success |-> FALSE, data |-> NoData,
          error |-> [message |-> JsOr(error.message, "Unknown error occurred"),
                     code |-> "UNKNOWN_ERROR"]]

\* Mutant of request: the catch block returns the failure without the
\* transformed error.
request_dropsError(outcome) ==
    IF outcome.kind = "ok"
    THEN [success |-> TRUE, data |-> outcome.data, error |-> NoError]
    ELSE [success |-> FALSE, data |-> NoData, error |-> NoError]

\* RaworcApiClient.request, from the outcome on: the ApiResponse the method
\* resolves with.
request(outcome) ==
    IF outcome.kind = "ok"
    THEN [success |-> TRUE, data |-> outcome.data, error |-> NoError]
    ELSE transformError(outcome)

\* response.success && response.data
Succeeded(response) == response.success /\ response.data # NoData

\* The error handler of the response interceptor, up to transformError: on a
\* 401 it clears the Token Store and dispatches the auth:logout event, which
\* the listener of AuthProvider (handleLogout) turns into AUTH_LOGOUT.
handleLogout(s) == authReducer(s, AUTH_LOGOUT)

\* Mutant of the response interceptor: on a 401 the event is dispatched and
\* the Token Store is left alone.
responseInterceptor_keepsToken(outcome, jar, s) ==
    IF outcome.kind = "status" /\ outcome.status = 401
    THEN [jar |-> jar, state |-> handleLogout(s), events |-> <<"auth:logout">>]
    ELSE [jar |-> jar, state |-> s, events |-> <<>>]

\* Mutant of the response interceptor: on a 401 the request is retried once
\* and the retry is answered 401 too, so the handler runs a second time.
responseInterceptor_retries(outcome, jar, s) ==
    IF outcome.kind = "status" /\ outcome.status = 401
    THEN [jar |-> clearToken(jar), state |-> handleLogout(handleLogout(s)),
          events |-> <<"auth:logout", "auth:logout">>]
    ELSE [jar |-> jar, state |-> s, events |-> <<>>]

\* `events` are the events the handler dispatches on window, in order.
responseInterceptor(outcome, jar, s) ==
    IF outcome.kind = "status" /\ outcome.status = 401
    THEN [jar |-> clearToken(jar), state |-> handleLogout(s), events |-> <<"auth:logout">>]
    ELSE [jar |-> jar, state |-> s, events |-> <<>>]

\* The default client is constructed with retries: 3; the constructor reads
\* baseURL and timeout only, and nothing else reads the configuration.
retries == 3

\* ----------------------------------------------------------------- server
\* The token and the user of the backend, and what its routes answer.
Tokens == {"mock-jwt-token-12345"}
Users == {"admin"}
Credentials == {"good", "bad"}

\* POST /auth/internal: a token for the right credentials, 401 otherwise.
LoginOutcomes(cred, t) ==
    (IF cred = "good"
     THEN {OkOutcome(<<token, toISOString(t + TokenLifetime)>>) : token \in Tokens}
            \cup {OkOutcome(NoData)}
     ELSE {StatusOutcome(401, "Invalid credentials")})
    \cup {StatusOutcome(500, Undefined), NoResponseOutcome, SetupOutcome}

\* GET /auth/me: the user for a request that carries a token, 401 otherwise
\* (and 401 as well for a token the server no longer accepts).
MeOutcomes(Authorization) ==
    (IF Authorization # NoHeader
     THEN {OkOutcome(<<user>>) : user \in Users} \cup {OkOutcome(NoData)}
     ELSE {})
    \cup {StatusOutcome(401, "Unauthorized"), StatusOutcome(500, Undefined),
          NoResponseOutcome, SetupOutcome}

\* Every other route.
ResourceOutcomes ==
    {OkOutcome(<<"payload">>), StatusOutcome(401, "Unauthorized"),
     StatusOutcome(500, Undefined), NoResponseOutcome, SetupOutcome}

\* ------------------------------------------------- entities and the backend
\* A workspace or a session as the backend serialises it: the fields the
\* views read.  A workspace has no status.
NoStatus == "-"
Workspace(id, name) == [id |-> id, name |-> name, status |-> NoStatus]
Session(id, name, status) == [id |-> id, name |-> name, status |-> status]
NoWorkspace == Workspace(NoId, "")

\* Date.now() at instant t, as it is written into an id.
DateNow(t) == "now+" \o ToString(t)

\* The mock data of the backend; the sessions are those of the workspace
\* that SessionManager shows.
SeedWorkspace == Workspace(<<"ws-1">>, "Development Environment")
SeedServer ==
    [workspaces |-> <<SeedWorkspace>>,
     sessions |-> <<Session(<<"sess-1">>, "Web Server", "running"),
                    Session(<<"sess-2">>, "Database", "stopped")>>]

\* A response body is a 1-tuple holding a list of entities: the collection
\* of a GET, the one entity of a POST, nothing for the {success: true} of a
\* DELETE.  NoData is the body that is absent or empty.
Body(entities) == <<entities>>
Entities(data) == data[1]

\* array.filter(e => e.id !== id)
WithoutId(entities, id) == SelectSeq(entities, LAMBDA e : e.id # id)

\* array.find(s => s.id === id) finds an entry.
HasId(entities, id) == \E i \in 1..Len(entities) : entities[i].id = id

\* The routes of the backend: the server afterwards and the answer sent.
GetWorkspacesRoute(srv) ==
    [server |-> srv, reply |-> OkOutcome(Body(srv.workspaces))]

PostWorkspaceRoute(srv, name, t) ==
    LET newWorkspace == Workspace(<<"ws-" \o DateNow(t)>>, name)
    IN  [server |-> [srv EXCEPT !.workspaces = Append(@, newWorkspace)],
         reply |-> OkOutcome(Body(<<newWorkspace>>))]

DeleteWorkspaceRoute(srv, id) ==
    [server |-> [srv EXCEPT !.workspaces = WithoutId(@, id)],
     reply |-> OkOutcome(Body(<<>>))]

GetSessionsRoute(srv) ==
    [server |-> srv, reply |-> OkOutcome(Body(srv.sessions))]

PostSessionRoute(srv, name, status, t) ==
    LET newSession == Session(<<"sess-" \o DateNow(t)>>, name, status)
    IN  [server |-> [srv EXCEPT !.sessions = Append(@, newSession)],
         reply |-> OkOutcome(Body(<<newSession>>))]

\* POST .../start and POST .../stop: the session found gets the status.
SetStatusRoute(srv, id, status) ==
    IF HasId(srv.sessions, id)
    THEN LET i == CHOOSE i \in 1..Len(srv.sessions) :
                     /\ srv.sessions[i].id = id
                     /\ \A j \in 1..(i - 1) : srv.sessions[j].id # id
             session == [srv.sessions[i] EXCEPT !.status = status]
         IN  [server |-> [srv EXCEPT !.sessions[i] = session],
              reply |-> OkOutcome(Body(<<session>>))]
    ELSE [server |-> srv, reply |-> StatusOutcome(404, "Session not found")]

DeleteSessionRoute(srv, id) ==
    [server |-> [srv EXCEPT !.sessions = WithoutId(@, id)],
     reply |-> OkOutcome(Body(<<>>))]

\* --------------------------------------------------------------- the views
DashboardInitial == [activeTab |-> "workspaces", selectedWorkspace |-> NoWorkspace]
WorkspaceListInitial == [workspaces |-> <<>>, loading |-> TRUE, error |-> Null]
SessionManagerInitial == [sessions |-> <<>>, loading |-> TRUE, error |-> Null]

\* What the user types into the name field of a create form, and
\* String.prototype.trim on it.
FormNames == {" Dev ", "  "}
trim(name) ==
    CASE name = " Dev " -> "Dev"
      [] name = "  " -> ""
      [] OTHER -> name

\* validateForm of the create modals, as far as the name goes.
validateForm(name) == ~Falsy(trim(name)) /\ Len(name) >= 3

\* loadWorkspaces from the response on: the collection is set from a
\* successful response, the error from any other; loading ends.
loadWorkspaces(list, response) ==
    IF Succeeded(response)
    THEN [list EXCEPT !.workspaces = Entities(response.data), !.loading = FALSE]
    ELSE [list EXCEPT !.error = JsOr(response.error.message, "Failed to load workspaces"),
                      !.loading = FALSE]

\* Mutant of loadSessions: the sessions received are added to those held.
loadSessions_merges(manager, response, silent) ==
    IF Succeeded(response)
    THEN [manager EXCEPT !.sessions = @ \o Entities(response.data), !.loading = FALSE]
    ELSE IF ~silent
    THEN [manager EXCEPT !.error = JsOr(response.error.message, "Failed to load sessions"),
                         !.loading = FALSE]
    ELSE [manager EXCEPT !.loading = FALSE]

\* Mutant of loadSessions: a silent load reports its failure too.
loadSessions_alwaysReports(manager, response, silent) ==
    IF Succeeded(response)
    THEN [manager EXCEPT !.sessions = Entities(response.data), !.loading = FALSE]
    ELSE [manager EXCEPT !.error = JsOr(response.error.message, "Failed to load sessions"),
                         !.loading = FALSE]

\* Mutant of loadSessions: only the first load to resolve sets the collection.
loadSessions_firstWins(manager, response, silent) ==
    IF Succeeded(response)
    THEN IF manager.loading
         THEN [manager EXCEPT !.sessions = Entities(response.data), !.loading = FALSE]
         ELSE manager
    ELSE IF ~silent
    THEN [manager EXCEPT !.error = JsOr(response.error.message, "Failed to load sessions"),
                         !.loading = FALSE]
    ELSE [manager EXCEPT !.loading = FALSE]

\* loadSessions(silent) from the response on: as loadWorkspaces, but a silent
\* load does not set the error.
loadSessions(manager, response, silent) ==
    IF Succeeded(response)
    THEN [manager EXCEPT !.sessions = Entities(response.data), !.loading = FALSE]
    ELSE IF ~silent
    THEN [manager EXCEPT !.error = JsOr(response.error.message, "Failed to load sessions"),
                         !.loading = FALSE]
    ELSE [manager EXCEPT !.loading = FALSE]

\* Mutant of handleWorkspaceCreated: the new workspace is put first.
handleWorkspaceCreated_prepends(prev, newWorkspace) == <<newWorkspace>> \o prev

\* setWorkspaces(prev => [...prev, newWorkspace])
handleWorkspaceCreated(prev, newWorkspace) == Append(prev, newWorkspace)

\* setWorkspaces(prev => prev.filter(workspace => workspace.id !== id))
handleWorkspaceDeleted(prev, deletedWorkspaceId) == WithoutId(prev, deletedWorkspaceId)

\* setSessions(prev => [...prev, newSession])
handleSessionCreated(prev, newSession) == Append(prev, newSession)

\* Mutant of handleSessionUpdated: a session that is not in the list is added.
handleSessionUpdated_addsMissing(prev, updatedSession) ==
    IF HasId(prev, updatedSession.id)
    THEN [i \in 1..Len(prev) |->
            IF prev[i].id = updatedSession.id THEN updatedSession ELSE prev[i]]
    ELSE Append(prev, updatedSession)

\* setSessions(prev => prev.map(s => s.id === updated.id ? updated : s))
handleSessionUpdated(prev, updatedSession) ==
    [i \in 1..Len(prev) |->
        IF prev[i].id = updatedSession.id THEN updatedSession ELSE prev[i]]

\* setSessions(prev => prev.filter(session => session.id !== id))
handleSessionDeleted(prev, deletedSessionId) == WithoutId(prev, deletedSessionId)

\* sessions.filter(session => session.status === status), as ids.
IdsWithStatus(sessions, status) ==
    LET matching == SelectSeq(sessions, LAMBDA session : session.status = status)
    IN  [i \in 1..Len(matching) |-> matching[i].id]

\* ------------------------------------------------------------------ state
VARIABLES
    now,        \* the clock (Date.now())
    cookies,    \* the cookie jar of the Token Store
    state,      \* the AuthState held by useReducer
    calls,      \* the HTTP requests in flight, a bag of call records
    mounted,    \* whether the effect of AuthProvider has run
    last,       \* the handler that ran last, and what it returned
    server,     \* the collections the backend holds
    dashboard,  \* Dashboard: activeTab and selectedWorkspace
    workspaceList,   \* WorkspaceList: workspaces, loading, error
    sessionManager,  \* SessionManager: sessions, loading, error
    requests,   \* how many requests the handlers of the views have started
    loginForm,  \* LoginForm under Home: shown or not, its formData, its effect
    interval    \* the workspace id the polling interval of SessionManager runs for

\* The state of the views under Dashboard, and of the backend they show.
viewVars == <<server, dashboard, workspaceList, sessionManager, requests>>

vars == <<now, cookies, state, calls, mounted, last, server, dashboard, workspaceList,
          sessionManager, requests, loginForm, interval>>

\* A request in flight: who awaits it, the Authorization header it left with
\* and, for POST /auth/internal, the credentials in its body.
Call(caller, Authorization, cred) ==
    [caller |-> caller, Authorization |-> Authorization, cred |-> cred]

\* `last`: the handler that ran, what it returned, the outcome it consumed
\* (for the continuation of a request) and the endpoint it requested (for
\* the continuation of a session's delete, the id in its path).
Ran(op, ret, answer, url) == [op |-> op, ret |-> ret, answer |-> answer, url |-> url]

\* The outcome of a request as `last` records it: the status, or the failure kind.
Answer(outcome) ==
    IF outcome.kind = "status" THEN ToString(outcome.status) ELSE outcome.kind

Outcomes(c, t) ==
    CASE c.caller = "login" -> LoginOutcomes(c.cred, t)
      [] c.caller \in {"checkAuth", "loginMe"} -> MeOutcomes(c.Authorization)
      [] OTHER -> ResourceOutcomes

AllOutcomes ==
    UNION {LoginOutcomes(cred, t) : cred \in Credentials, t \in 0..MaxTime}
    \cup MeOutcomes(Bearer("")) \cup ResourceOutcomes

\* The cookie jars a previous visit can have left: none, or a pair written by
\* setToken that has not expired yet.
StoredJars ==
    {EmptyJar} \cup
    {setToken(EmptyJar, token, toISOString(e)) : token \in Tokens, e \in 1..TokenLifetime}

\* The state captured by the closures the mount effect creates: the effect has
\* no dependencies, so it runs once, in the first render, whose `state` is
\* initialState.
effectState == initialState

\* LoginForm: formData as useState initialises it (user and pass empty), and
\* the component while Home does not render it.
NoFormData == ""

NoLoginForm == [view |-> "unmounted", effect |-> "none", formData |-> NoFormData]

\* LoginForm as its first render leaves it: the effect on [formData] is
\* scheduled, as after every render that changed formData.
LoginFormMounted == [view |-> "shown", effect |-> "mount", formData |-> NoFormData]

\* Home: the spinner while isLoading, LoginForm while not authenticated,
\* Dashboard otherwise. A LoginForm that was not rendered is mounted anew; one
\* that stays rendered keeps its state.
Home(s, f) ==
    IF s.isLoading THEN NoLoginForm
    ELSE IF ~s.isAuthenticated
         THEN (IF f.view = "unmounted" THEN LoginFormMounted ELSE f)
         ELSE NoLoginForm

\* The polling interval of SessionManager after a render of Home in auth
\* state s: a Dashboard that is no longer rendered unmounts SessionManager,
\* whose effect cleanup calls clearInterval.
PollingAfter(s, i) == IF s.isAuthenticated /\ ~s.isLoading THEN i ELSE NoId

\* The render that follows a handler.
HomeRenders ==
    /\ loginForm' = Home(state', loginForm)
    /\ interval' = PollingAfter(state', interval)

\* Before Dashboard is rendered: no view holds anything.
NoViews ==
    /\ server = [workspaces |-> <<>>, sessions |-> <<>>]
    /\ dashboard = DashboardInitial
    /\ workspaceList = WorkspaceListInitial
    /\ sessionManager = SessionManagerInitial
    /\ requests = 0
    /\ loginForm = NoLoginForm
    /\ interval = NoId

Init ==
    /\ now = 0
    /\ cookies \in StoredJars
    /\ state = initialState
    /\ calls = EmptyBag
    /\ mounted = FALSE
    /\ last = Ran("init", "-", "-", <<>>)
    /\ NoViews

\* ---------------------------------------------------- Auth State Controller
\* checkAuth up to its await: AUTH_START, then AUTH_LOGOUT without a token,
\* a GET /auth/me otherwise.
checkAuth ==
    LET started == authReducer(state, AUTH_START)
        valid == tokenIsAuthenticated(cookies, now)
        req == requestInterceptor(Endpoint("getCurrentUser", NoId, NoId), valid.jar, now)
    IN  IF ~valid.ret
        THEN /\ cookies' = valid.jar
             /\ state' = authReducer(started, AUTH_LOGOUT)
             /\ calls' = calls
        ELSE /\ cookies' = req.jar
             /\ state' = started
             /\ calls' = calls (+) SetToBag({Call("checkAuth", req.Authorization, "-")})

\* The mount effect of AuthProvider: checkAuth(), the auth:logout listener
\* and the token-check interval.
Mount ==
    /\ ~mounted
    /\ checkAuth
    /\ mounted' = TRUE
    /\ last' = Ran("mount", "-", "-", <<>>)
    /\ UNCHANGED now
    /\ UNCHANGED viewVars
    /\ HomeRenders

\* checkAuth called through the context.
CheckAuth ==
    /\ mounted
    /\ BagCardinality(calls) < MaxCalls
    /\ checkAuth
    /\ last' = Ran("checkAuth", "-", "-", <<>>)
    /\ UNCHANGED <<now, mounted>>
    /\ UNCHANGED viewVars
    /\ HomeRenders

\* The answer to the GET /auth/me of checkAuth.
CheckAuthResponse(c, outcome) ==
    LET seen == responseInterceptor(outcome, cookies, state)
        response == request(outcome)
    IN  /\ c.caller = "checkAuth"
        /\ BagIn(c, calls)
        /\ outcome \in Outcomes(c, now)
        /\ calls' = calls (-) SetToBag({c})
        /\ IF Succeeded(response)
           THEN /\ cookies' = seen.jar
                /\ state' = authReducer(seen.state, AUTH_SUCCESS(response.data[1]))
           ELSE /\ cookies' = clearToken(seen.jar)
                /\ state' = authReducer(seen.state,
                                AUTH_ERROR(JsOr(response.error.message,
                                                "Authentication failed")))
        /\ last' = Ran("checkAuthDone", "-", Answer(outcome), <<>>)
        /\ UNCHANGED <<now, mounted>>
        /\ UNCHANGED viewVars
        /\ HomeRenders

\* login up to its first await: AUTH_START and the POST /auth/internal.
Login(cred) ==
    LET req == requestInterceptor(Endpoint("login", NoId, NoId), cookies, now)
    IN  /\ mounted
        /\ BagCardinality(calls) < MaxCalls
        /\ state' = authReducer(state, AUTH_START)
        /\ cookies' = req.jar
        /\ calls' = calls (+) SetToBag({Call("login", req.Authorization, cred)})
        /\ last' = Ran("login", "-", "-", <<>>)
        /\ UNCHANGED <<now, mounted>>
        /\ UNCHANGED viewVars
        /\ HomeRenders

\* The answer to POST /auth/internal: RaworcApiClient.login stores the token,
\* then login of AuthProvider calls getCurrentUser, or fails and returns false.
LoginResponse(c, outcome) ==
    LET seen == responseInterceptor(outcome, cookies, state)
        response == request(outcome)
        stored == IF Succeeded(response)
                  THEN setToken(seen.jar, response.data[1], response.data[2])
                  ELSE seen.jar
        req == requestInterceptor(Endpoint("getCurrentUser", NoId, NoId), stored, now)
    IN  /\ c.caller = "login"
        /\ BagIn(c, calls)
        /\ outcome \in Outcomes(c, now)
        /\ IF Succeeded(response)
           THEN /\ cookies' = req.jar
                /\ state' = seen.state
                /\ calls' = (calls (-) SetToBag({c}))
                                (+) SetToBag({Call("loginMe", req.Authorization, "-")})
                /\ last' = Ran("loginStored", "-", Answer(outcome), <<>>)
           ELSE /\ cookies' = stored
                /\ state' = authReducer(seen.state,
                                AUTH_ERROR(JsOr(response.error.message, "Login failed")))
                /\ calls' = calls (-) SetToBag({c})
                /\ last' = Ran("loginReturn", "false", Answer(outcome), <<>>)
        /\ UNCHANGED <<now, mounted>>
        /\ UNCHANGED viewVars
        /\ HomeRenders

\* The answer to the GET /auth/me of login: login returns.
LoginMeResponse(c, outcome) ==
    LET seen == responseInterceptor(outcome, cookies, state)
        userResponse == request(outcome)
    IN  /\ c.caller = "loginMe"
        /\ BagIn(c, calls)
        /\ outcome \in Outcomes(c, now)
        /\ calls' = calls (-) SetToBag({c})
        /\ cookies' = seen.jar
        /\ IF Succeeded(userResponse)
           THEN /\ state' = authReducer(seen.state, AUTH_SUCCESS(userResponse.data[1]))
                /\ last' = Ran("loginReturn", "true", Answer(outcome), <<>>)
           ELSE /\ state' = authReducer(seen.state,
                                AUTH_ERROR("Failed to get user information"))
                /\ last' = Ran("loginReturn", "false", Answer(outcome), <<>>)
        /\ UNCHANGED <<now, mounted>>
        /\ UNCHANGED viewVars
        /\ HomeRenders

\* logout of AuthProvider.
logoutJar(jar) == clearToken(jar)
logoutState(s) == authReducer(s, AUTH_LOGOUT)

Logout ==
    /\ mounted
    /\ cookies' = logoutJar(cookies)
    /\ state' = logoutState(state)
    /\ last' = Ran("logout", "-", "-", <<>>)
    /\ UNCHANGED <<now, calls, mounted>>
    /\ UNCHANGED viewVars
    /\ HomeRenders

\* clearError of AuthProvider.
ClearError ==
    /\ mounted
    /\ state' = authReducer(state, CLEAR_ERROR)
    /\ last' = Ran("clearError", "-", "-", <<>>)
    /\ UNCHANGED <<now, cookies, calls, mounted>>
    /\ UNCHANGED viewVars
    /\ HomeRenders

\* One run of the tokenCheckInterval callback.  The callback reads `state`
\* through the closure of the mount effect.
tokenCheck(jar, s, t) ==
    [jar |-> tokenIsAuthenticated(jar, t).jar,
     state |-> IF ~tokenIsAuthenticated(jar, t).ret /\ effectState.isAuthenticated
               THEN authReducer(s, AUTH_LOGOUT)
               ELSE s]

Tick ==
    /\ mounted
    /\ cookies' = tokenCheck(cookies, state, now).jar
    /\ state' = tokenCheck(cookies, state, now).state
    /\ last' = Ran("tick", "-", "-", <<>>)
    /\ UNCHANGED <<now, calls, mounted>>
    /\ UNCHANGED viewVars
    /\ HomeRenders

\* ------------------------------------------------------------ other callers
\* A gateway method called by a view (Dashboard, the list controllers), up to
\* the dispatch of its request.
Dispatch(method, wsId, sessId) ==
    LET req == requestInterceptor(Endpoint(method, wsId, sessId), cookies, now)
    IN  /\ mounted
        /\ BagCardinality(calls) < MaxCalls
        /\ cookies' = req.jar
        /\ calls' = calls (+) SetToBag({Call("resource", req.Authorization, "-")})
        /\ UNCHANGED <<now, state, mounted>>
        /\ UNCHANGED viewVars
        /\ HomeRenders

Request(method, wsId, sessId) ==
    /\ Dispatch(method, wsId, sessId)
    /\ last' = Ran("request", "-", "-", <<>>)

\* The same step, with the method and the endpoint kept in `last`.
GatewayRequest(method, wsId, sessId) ==
    /\ Dispatch(method, wsId, sessId)
    /\ last' = Ran(method, "-", "-", Endpoint(method, wsId, sessId))

\* Its answer: the caller touches neither the Token Store nor the AuthState.
Response(c, outcome) ==
    LET seen == responseInterceptor(outcome, cookies, state)
    IN  /\ c.caller = "resource"
        /\ BagIn(c, calls)
        /\ outcome \in Outcomes(c, now)
        /\ calls' = calls (-) SetToBag({c})
        /\ cookies' = seen.jar
        /\ state' = seen.state
        /\ last' = Ran("response", "-", Answer(outcome), <<>>)
        /\ UNCHANGED <<now, mounted>>
        /\ UNCHANGED viewVars
        /\ HomeRenders

\* ------------------------------------------------------------- environment
\* Time passes.
Advance ==
    /\ now < MaxTime
    /\ now' = now + 1
    /\ last' = Ran("advance", "-", "-", <<>>)
    /\ UNCHANGED <<cookies, state, calls, mounted>>
    /\ UNCHANGED viewVars
    /\ HomeRenders

\* Both cookies are set with `expires: expirationDate`: the browser drops
\* them once that date has passed.
CookiesExpire ==
    /\ cookies # EmptyJar
    /\ DateLe(DateParse(cookies.expires), now)
    /\ cookies' = EmptyJar
    /\ last' = Ran("cookiesExpire", "-", "-", <<>>)
    /\ UNCHANGED <<now, state, calls, mounted>>
    /\ UNCHANGED viewVars
    /\ HomeRenders

CheckAuthResponds ==
    \E c \in BagToSet(calls) : \E outcome \in Outcomes(c, now) :
        CheckAuthResponse(c, outcome)

LoginResponds ==
    \E c \in BagToSet(calls) : \E outcome \in Outcomes(c, now) :
        LoginResponse(c, outcome)

LoginMeResponds ==
    \E c \in BagToSet(calls) : \E outcome \in Outcomes(c, now) :
        LoginMeResponse(c, outcome)

Responds ==
    \E c \in BagToSet(calls) : \E outcome \in Outcomes(c, now) :
        Response(c, outcome)

\* The actions of the Auth State Controller, of the network and of the
\* environment, shared by the specifications below.
AuthNext ==
    \/ Mount
    \/ CheckAuth
    \/ \E cred \in Credentials : Login(cred)
    \/ CheckAuthResponds
    \/ LoginResponds
    \/ LoginMeResponds
    \/ Responds
    \/ Logout
    \/ ClearError
    \/ Tick
    \/ Advance
    \/ CookiesExpire

Next ==
    \/ AuthNext
    \/ \E method \in ResourceMethods :
          \E wsId \in WorkspaceArgs(method), sessId \in SessionArgs(method) :
             Request(method, wsId, sessId)

Spec == Init /\ [][Next]_vars

\* The same program, `last` keeping the method and endpoint of each request.
NextGateway ==
    \/ AuthNext
    \/ \E method \in ResourceMethods :
          \E wsId \in WorkspaceArgs(method), sessId \in SessionArgs(method) :
             GatewayRequest(method, wsId, sessId)

SpecGateway == Init /\ [][NextGateway]_vars

\* The Auth State Controller with its own requests only (logout signals come
\* from its own answers and from the token check), where the mount effect
\* runs and every request is answered in the end.
NextLive ==
    \/ Mount
    \/ CheckAuth
    \/ \E cred \in Credentials : Login(cred)
    \/ CheckAuthResponds
    \/ LoginResponds
    \/ LoginMeResponds
    \/ Logout
    \/ ClearError
    \/ Tick
    \/ Advance
    \/ CookiesExpire

SpecLive ==
    /\ Init /\ [][NextLive]_vars
    /\ WF_vars(Mount)
    /\ WF_vars(CheckAuthResponds)
    /\ WF_vars(LoginResponds)
    /\ WF_vars(LoginMeResponds)

\* --------------------------------------------------- the screens of Home
\* handleInputChange: a field of LoginForm is edited; the render that follows
\* schedules the effect on [formData].
FormEdit(cred) ==
    /\ loginForm.view = "shown"
    /\ loginForm.effect = "none"
    /\ loginForm' = [loginForm EXCEPT !.formData = cred, !.effect = "edit"]
    /\ last' = Ran("formEdit", "-", "-", <<>>)
    /\ UNCHANGED <<now, cookies, state, calls, mounted, interval>>
    /\ UNCHANGED viewVars

\* The effect of LoginForm on [formData], after the first render and after
\* every edit: clearError() when an error is shown.
LoginFormEffect ==
    /\ loginForm.view = "shown"
    /\ loginForm.effect # "none"
    /\ state' = IF ~Falsy(state.error) THEN authReducer(state, CLEAR_ERROR) ELSE state
    /\ loginForm' = [loginForm EXCEPT !.effect = "none"]
    /\ last' = Ran("formEffect", loginForm.effect, "-", <<>>)
    /\ UNCHANGED <<now, cookies, calls, mounted, interval>>
    /\ UNCHANGED viewVars

\* handleSubmit: validateForm passes once user and pass are filled in, then
\* login(formData).
FormSubmit ==
    /\ loginForm.view = "shown"
    /\ loginForm.effect = "none"
    /\ loginForm.formData # NoFormData
    /\ Login(loginForm.formData)

\* The logout button of Dashboard, rendered while authenticated.
DashboardLogout ==
    /\ state.isAuthenticated /\ ~state.isLoading
    /\ Logout

\* A request of a view under Dashboard.
DashboardRequest ==
    /\ state.isAuthenticated /\ ~state.isLoading
    /\ \E method \in ResourceMethods :
          \E wsId \in WorkspaceArgs(method), sessId \in SessionArgs(method) :
             Request(method, wsId, sessId)

\* The application as Home renders it: login() is called by LoginForm only,
\* logout() by Dashboard only, checkAuth() by the mount effect only and
\* clearError() by the effect of LoginForm only.
NextForm ==
    \/ Mount
    \/ \E cred \in Credentials : FormEdit(cred)
    \/ LoginFormEffect
    \/ FormSubmit
    \/ CheckAuthResponds
    \/ LoginResponds
    \/ LoginMeResponds
    \/ DashboardLogout
    \/ DashboardRequest
    \/ Responds
    \/ Tick
    \/ Advance
    \/ CookiesExpire

SpecForm == Init /\ [][NextForm]_vars

\* ------------------------------------------------- the Token Store alone
\* TokenManager called directly on a cookie jar of any content: each entry
\* missing, empty or set, the expiry entry a date or not.
NotADate == "not-a-date"

AnyJars ==
    [token : {Undefined, ""} \cup Tokens,
     expires : {Undefined, "", NotADate} \cup {toISOString(e) : e \in 0..MaxTime}]

ExpiresAtInputs ==
    {toISOString(e) : e \in 0..(MaxTime + TokenLifetime)} \cup {NotADate}

InitStore ==
    /\ now = 0
    /\ cookies \in AnyJars
    /\ state = initialState
    /\ calls = EmptyBag
    /\ mounted = FALSE
    /\ last = Ran("init", "-", "-", <<>>)
    /\ NoViews

StoreSetToken(token, expiresAt) ==
    /\ cookies' = setToken(cookies, token, expiresAt)
    /\ last' = Ran("setToken", "-", "-", <<>>)
    /\ UNCHANGED <<now, state, calls, mounted>>
    /\ UNCHANGED viewVars
    /\ HomeRenders

\* What a read did to the jar, as `last` records it.
JarEffect(before, after) == IF after = before THEN "kept" ELSE "cleared"

StoreGetToken ==
    /\ cookies' = getToken(cookies, now).jar
    /\ last' = Ran("getToken", getToken(cookies, now).ret,
                   JarEffect(cookies, getToken(cookies, now).jar), <<>>)
    /\ UNCHANGED <<now, state, calls, mounted>>
    /\ UNCHANGED viewVars
    /\ HomeRenders

StoreIsAuthenticated ==
    /\ cookies' = tokenIsAuthenticated(cookies, now).jar
    /\ last' = Ran("isAuthenticated",
                   IF tokenIsAuthenticated(cookies, now).ret THEN "true" ELSE "false",
                   JarEffect(cookies, tokenIsAuthenticated(cookies, now).jar), <<>>)
    /\ UNCHANGED <<now, state, calls, mounted>>
    /\ UNCHANGED viewVars
    /\ HomeRenders

StoreGetAuthHeader ==
    /\ cookies' = getAuthHeader(cookies, now).jar
    /\ last' = Ran("getAuthHeader", getAuthHeader(cookies, now).ret,
                   JarEffect(cookies, getAuthHeader(cookies, now).jar), <<>>)
    /\ UNCHANGED <<now, state, calls, mounted>>
    /\ UNCHANGED viewVars
    /\ HomeRenders

StoreClearToken ==
    /\ cookies' = clearToken(cookies)
    /\ last' = Ran("clearToken", "-", "-", <<>>)
    /\ UNCHANGED <<now, state, calls, mounted>>
    /\ UNCHANGED viewVars
    /\ HomeRenders

NextStore ==
    \/ \E token \in Tokens, expiresAt \in ExpiresAtInputs : StoreSetToken(token, expiresAt)
    \/ StoreGetToken
    \/ StoreIsAuthenticated
    \/ StoreGetAuthHeader
    \/ StoreClearToken
    \/ Advance
    \/ CookiesExpire

SpecStore == InitStore /\ [][NextStore]_vars

\* ------------------------------------------------ the list controllers
\* WorkspaceList and SessionManager (with the cards and create modals they
\* render) against the backend.  Dashboard shows one of the two at a time.
\* Left out: Dashboard.loadSystemStatus (onWorkspaceChange) and
\* WorkspaceCard.loadSessionCount, which write only systemStatus and
\* sessionCount, and the refreshing, showCreateModal, actionLoading and form
\* state of the components.

\* No answer has been produced for a request yet.
NoReply ==
    [kind |-> "none", status |-> 0, data |-> NoData, bodyMessage |-> Undefined,
     message |-> Undefined]

\* A request of a view in flight: the handler that awaits it, the id in its
\* path, the name in its body, whether the load is silent, the ids a
\* start-all / stop-all loop has still to visit, the answer of the backend
\* once it has processed the request, and whether the component that sent
\* it is still mounted (the state setters of an unmounted one do nothing).
ListCall(caller, id, name, silent, rest, reply) ==
    [caller |-> caller, id |-> id, name |-> name, silent |-> silent, rest |-> rest,
     reply |-> reply, mounted |-> TRUE]

\* The answers a view can get: that of the backend or the loss of it; for a
\* request the backend has not processed, a rejection or a failure on the way.
ListOutcomes(c) ==
    IF c.reply = NoReply
    THEN {StatusOutcome(401, "Unauthorized"), StatusOutcome(500, Undefined),
          NoResponseOutcome, SetupOutcome}
    ELSE {c.reply, NoResponseOutcome}

\* Home renders Dashboard for an authenticated user only, and Dashboard one
\* tab at a time.
OnTab(tab) ==
    /\ mounted
    /\ state.isAuthenticated /\ ~state.isLoading
    /\ dashboard.activeTab = tab

\* WorkspaceList renders a spinner while loading, and only the error with a
\* Retry button while it has one; SessionManager renders a spinner while
\* loading.
WorkspaceListShown == OnTab("workspaces") /\ ~workspaceList.loading

WorkspaceCardsShown == WorkspaceListShown /\ Falsy(workspaceList.error)

SessionManagerShown ==
    /\ OnTab("sessions")
    /\ dashboard.selectedWorkspace # NoWorkspace
    /\ ~sessionManager.loading

\* A gateway method is called with `call` awaiting it: the request
\* interceptor runs and the request is in flight.
Send(method, wsId, sessId, call) ==
    /\ BagCardinality(calls) < MaxCalls
    /\ requests < MaxRequests
    /\ requests' = requests + 1
    /\ cookies' = requestInterceptor(Endpoint(method, wsId, sessId), cookies, now).jar
    /\ calls' = calls (+) SetToBag({call})

\* The answer to the call c arrives: the response interceptor runs.
Receive(c, outcome) ==
    /\ BagIn(c, calls)
    /\ c.mounted
    /\ outcome \in ListOutcomes(c)
    /\ cookies' = responseInterceptor(outcome, cookies, state).jar
    /\ state' = responseInterceptor(outcome, cookies, state).state

\* The backend processes a request.
Route(c, srv, t) ==
    CASE c.caller = "loadWorkspaces" -> GetWorkspacesRoute(srv)
      [] c.caller = "createWorkspace" -> PostWorkspaceRoute(srv, c.name, t)
      [] c.caller = "deleteWorkspace" -> DeleteWorkspaceRoute(srv, c.id)
      [] c.caller = "loadSessions" -> GetSessionsRoute(srv)
      [] c.caller = "createSession" -> PostSessionRoute(srv, c.name, "stopped", t)
      [] c.caller \in {"startSession", "startAll"} -> SetStatusRoute(srv, c.id, "running")
      [] c.caller \in {"stopSession", "stopAll"} -> SetStatusRoute(srv, c.id, "stopped")
      [] c.caller = "deleteSession" -> DeleteSessionRoute(srv, c.id)

Serve(c) ==
    /\ BagIn(c, calls)
    /\ c.reply = NoReply
    /\ server' = Route(c, server, now).server
    /\ calls' = (calls (-) SetToBag({c}))
                    (+) SetToBag({[c EXCEPT !.reply = Route(c, server, now).reply]})
    /\ UNCHANGED <<now, cookies, state, mounted, last, dashboard, workspaceList,
                   sessionManager, requests>>
    /\ HomeRenders

\* ---- WorkspaceList
\* loadWorkspaces up to its await, from Refresh or Retry.
LoadWorkspaces ==
    /\ WorkspaceListShown
    /\ workspaceList' = [workspaceList EXCEPT !.error = Null]
    /\ Send("getWorkspaces", NoId, NoId,
            ListCall("loadWorkspaces", NoId, "-", FALSE, <<>>, NoReply))
    /\ last' = Ran("loadWorkspaces", "-", "-", <<>>)
    /\ UNCHANGED <<now, state, mounted, server, dashboard, sessionManager>>
    /\ HomeRenders

\* loadWorkspaces after its await.
WorkspacesLoaded(c, outcome) ==
    /\ c.caller = "loadWorkspaces"
    /\ Receive(c, outcome)
    /\ calls' = calls (-) SetToBag({c})
    /\ workspaceList' = loadWorkspaces(workspaceList, request(outcome))
    /\ last' = Ran("workspacesLoaded", "-", Answer(outcome), <<>>)
    /\ UNCHANGED <<now, mounted, server, dashboard, sessionManager, requests>>
    /\ HomeRenders

\* CreateWorkspaceModal.handleSubmit up to its await: nothing is sent for a
\* form that does not validate.
CreateWorkspace(formName) ==
    /\ WorkspaceCardsShown
    /\ IF validateForm(formName)
       THEN /\ Len(server.workspaces) < MaxEntries
            /\ Len(workspaceList.workspaces) < MaxEntries
            /\ Send("createWorkspace", NoId, NoId,
                    ListCall("createWorkspace", NoId, trim(formName), FALSE, <<>>, NoReply))
            /\ last' = Ran("createWorkspace", "-", "-", <<>>)
       ELSE /\ UNCHANGED <<cookies, calls, requests>>
            /\ last' = Ran("createWorkspace", "invalid", "-", <<>>)
    /\ UNCHANGED <<now, state, mounted, server, dashboard, workspaceList, sessionManager>>
    /\ HomeRenders

\* handleSubmit after its await: onSuccess is handleWorkspaceCreated.
WorkspaceCreated(c, outcome) ==
    /\ c.caller = "createWorkspace"
    /\ Receive(c, outcome)
    /\ calls' = calls (-) SetToBag({c})
    /\ workspaceList' =
          IF Succeeded(request(outcome))
          THEN [workspaceList EXCEPT
                   !.workspaces = handleWorkspaceCreated(@, Entities(request(outcome).data)[1])]
          ELSE workspaceList
    /\ last' = Ran("workspaceCreated", "-", Answer(outcome), <<>>)
    /\ UNCHANGED <<now, mounted, server, dashboard, sessionManager, requests>>
    /\ HomeRenders

\* Mutant of DeleteWorkspace: the card is removed from the list as the request
\* is sent.
DeleteWorkspace_optimistic(i) ==
    /\ WorkspaceCardsShown
    /\ i \in 1..Len(workspaceList.workspaces)
    /\ Send("deleteWorkspace", workspaceList.workspaces[i].id, NoId,
            ListCall("deleteWorkspace", workspaceList.workspaces[i].id, "-", FALSE, <<>>,
                     NoReply))
    /\ workspaceList' =
          [workspaceList EXCEPT
              !.workspaces = handleWorkspaceDeleted(@, workspaceList.workspaces[i].id)]
    /\ last' = Ran("deleteWorkspace", "-", "-", <<>>)
    /\ UNCHANGED <<now, state, mounted, server, dashboard, sessionManager>>
    /\ HomeRenders

\* WorkspaceCard.handleDelete of the i-th card, confirmed, up to its await.
DeleteWorkspace(i) ==
    /\ WorkspaceCardsShown
    /\ i \in 1..Len(workspaceList.workspaces)
    /\ Send("deleteWorkspace", workspaceList.workspaces[i].id, NoId,
            ListCall("deleteWorkspace", workspaceList.workspaces[i].id, "-", FALSE, <<>>,
                     NoReply))
    /\ last' = Ran("deleteWorkspace", "-", "-", <<>>)
    /\ UNCHANGED <<now, state, mounted, server, dashboard, workspaceList, sessionManager>>
    /\ HomeRenders

\* handleDelete after its await: onDelete is handleWorkspaceDeleted.
WorkspaceDeleted(c, outcome) ==
    /\ c.caller = "deleteWorkspace"
    /\ Receive(c, outcome)
    /\ calls' = calls (-) SetToBag({c})
    /\ workspaceList' =
          IF request(outcome).success
          THEN [workspaceList EXCEPT !.workspaces = handleWorkspaceDeleted(@, c.id)]
          ELSE workspaceList
    /\ last' = Ran("workspaceDeleted", "-", Answer(outcome), <<>>)
    /\ UNCHANGED <<now, mounted, server, dashboard, sessionManager, requests>>
    /\ HomeRenders

\* ---- SessionManager
\* loadSessions up to its await: not silent from Refresh, silent from the
\* polling interval.
LoadSessions(silent) ==
    /\ IF silent THEN interval # NoId ELSE SessionManagerShown
    /\ sessionManager' = IF silent THEN sessionManager
                         ELSE [sessionManager EXCEPT !.error = Null]
    /\ Send("getSessions", IF silent THEN interval ELSE dashboard.selectedWorkspace.id, NoId,
            ListCall("loadSessions", NoId, "-", silent, <<>>, NoReply))
    /\ last' = Ran("loadSessions", IF silent THEN "silent" ELSE "-", "-", <<>>)
    /\ UNCHANGED <<now, state, mounted, server, dashboard, workspaceList>>
    /\ HomeRenders

\* loadSessions after its await.
SessionsLoaded(c, outcome) ==
    /\ c.caller = "loadSessions"
    /\ Receive(c, outcome)
    /\ calls' = calls (-) SetToBag({c})
    /\ sessionManager' = loadSessions(sessionManager, request(outcome), c.silent)
    /\ last' = Ran("sessionsLoaded", IF c.silent THEN "silent" ELSE "-",
                   Answer(outcome), <<>>)
    /\ UNCHANGED <<now, mounted, server, dashboard, workspaceList, requests>>
    /\ HomeRenders

\* CreateSessionModal.handleSubmit up to its await.
CreateSession(formName) ==
    /\ SessionManagerShown
    /\ IF validateForm(formName)
       THEN /\ Len(server.sessions) < MaxEntries
            /\ Len(sessionManager.sessions) < MaxEntries
            /\ Send("createSession", dashboard.selectedWorkspace.id, NoId,
                    ListCall("createSession", NoId, trim(formName), FALSE, <<>>, NoReply))
            /\ last' = Ran("createSession", "-", "-", <<>>)
       ELSE /\ UNCHANGED <<cookies, calls, requests>>
            /\ last' = Ran("createSession", "invalid", "-", <<>>)
    /\ UNCHANGED <<now, state, mounted, server, dashboard, workspaceList, sessionManager>>
    /\ HomeRenders

\* handleSubmit after its await: onSuccess is handleSessionCreated.
SessionCreated(c, outcome) ==
    /\ c.caller = "createSession"
    /\ Receive(c, outcome)
    /\ calls' = calls (-) SetToBag({c})
    /\ sessionManager' =
          IF Succeeded(request(outcome))
          THEN [sessionManager EXCEPT
                   !.sessions = handleSessionCreated(@, Entities(request(outcome).data)[1])]
          ELSE sessionManager
    /\ last' = Ran("sessionCreated", "-", Answer(outcome), <<>>)
    /\ UNCHANGED <<now, mounted, server, dashboard, workspaceList, requests>>
    /\ HomeRenders

\* A button of the i-th SessionCard, up to the await of its handler.
CardAction(caller, method, i) ==
    /\ SessionManagerShown
    /\ Send(method, dashboard.selectedWorkspace.id, sessionManager.sessions[i].id,
            ListCall(caller, sessionManager.sessions[i].id, "-", FALSE, <<>>, NoReply))
    /\ last' = Ran(caller, "-", "-", <<>>)
    /\ UNCHANGED <<now, state, mounted, server, dashboard, workspaceList, sessionManager>>
    /\ HomeRenders

\* SessionCard.handleStart: the button is rendered when canStart.
StartSession(i) ==
    /\ i \in 1..Len(sessionManager.sessions)
    /\ sessionManager.sessions[i].status = "stopped"
    /\ CardAction("startSession", "startSession", i)

\* SessionCard.handleStop: the button is rendered when canStop.
StopSession(i) ==
    /\ i \in 1..Len(sessionManager.sessions)
    /\ sessionManager.sessions[i].status = "running"
    /\ CardAction("stopSession", "stopSession", i)

\* SessionCard.handleDelete, confirmed.
DeleteSession(i) ==
    /\ i \in 1..Len(sessionManager.sessions)
    /\ CardAction("deleteSession", "deleteSession", i)

\* handleStart / handleStop after the await: onUpdate is handleSessionUpdated.
SessionUpdated(c, outcome) ==
    /\ c.caller \in {"startSession", "stopSession"}
    /\ Receive(c, outcome)
    /\ calls' = calls (-) SetToBag({c})
    /\ sessionManager' =
          IF Succeeded(request(outcome))
          THEN [sessionManager EXCEPT
                   !.sessions = handleSessionUpdated(@, Entities(request(outcome).data)[1])]
          ELSE sessionManager
    /\ last' = Ran("sessionUpdated", "-", Answer(outcome), <<>>)
    /\ UNCHANGED <<now, mounted, server, dashboard, workspaceList, requests>>
    /\ HomeRenders

\* handleDelete after its await: onDelete is handleSessionDeleted.
SessionDeleted(c, outcome) ==
    /\ c.caller = "deleteSession"
    /\ Receive(c, outcome)
    /\ calls' = calls (-) SetToBag({c})
    /\ sessionManager' =
          IF request(outcome).success
          THEN [sessionManager EXCEPT !.sessions = handleSessionDeleted(@, c.id)]
          ELSE sessionManager
    /\ last' = Ran("sessionDeleted", "-", Answer(outcome), c.id)
    /\ UNCHANGED <<now, mounted, server, dashboard, workspaceList, requests>>
    /\ HomeRenders

\* The gateway method a start-all / stop-all loop calls.
BulkMethod(caller) == IF caller = "startAll" THEN "startSession" ELSE "stopSession"

\* handleStartAll / handleStopAll up to the first await: the sessions of the
\* rendered list with the status are picked once, and the first of them is
\* requested.  The handler itself does not look at whether any matches.
BulkAction(caller, status) ==
    LET targets == IdsWithStatus(sessionManager.sessions, status)
    IN  /\ IF targets = <<>>
           THEN /\ UNCHANGED <<cookies, calls, requests>>
                /\ last' = Ran(caller, "none", "-", <<>>)
           ELSE /\ Send(BulkMethod(caller), dashboard.selectedWorkspace.id, Head(targets),
                        ListCall(caller, Head(targets), "-", FALSE, Tail(targets), NoReply))
                /\ last' = Ran(caller, "-", "-", <<>>)
        /\ UNCHANGED <<now, state, mounted, server, dashboard, workspaceList,
                       sessionManager>>
        /\ HomeRenders

StartAll ==
    /\ SessionManagerShown
    /\ BulkAction("startAll", "stopped")

StopAll ==
    /\ SessionManagerShown
    /\ BulkAction("stopAll", "running")

\* Mutant of BulkStep: the loop ends at the first call that fails.
BulkStep_stopsOnFailure(c, outcome) ==
    LET seen == responseInterceptor(outcome, cookies, state)
        rest == IF Succeeded(request(outcome)) THEN c.rest ELSE <<>>
    IN  /\ c.caller \in {"startAll", "stopAll"}
        /\ BagIn(c, calls)
        /\ outcome \in ListOutcomes(c)
        /\ state' = seen.state
        /\ sessionManager' =
              IF Succeeded(request(outcome))
              THEN [sessionManager EXCEPT
                       !.sessions = handleSessionUpdated(@, Entities(request(outcome).data)[1])]
              ELSE sessionManager
        /\ IF rest = <<>>
           THEN /\ cookies' = seen.jar
                /\ calls' = calls (-) SetToBag({c})
           ELSE /\ cookies' = requestInterceptor(
                                 Endpoint(BulkMethod(c.caller),
                                          dashboard.selectedWorkspace.id, Head(rest)),
                                 seen.jar, now).jar
                /\ calls' = (calls (-) SetToBag({c}))
                                (+) SetToBag({ListCall(c.caller, Head(rest), "-", FALSE,
                                                       Tail(rest), NoReply)})
        /\ last' = Ran("bulkStep", IF rest = <<>> THEN "done" ELSE "next",
                       Answer(outcome), <<>>)
        /\ UNCHANGED <<now, mounted, server, dashboard, workspaceList, requests>>
        /\ HomeRenders

\* One turn of the loop after its await: a successful answer is applied with
\* handleSessionUpdated, and whatever the answer the next session picked is
\* requested.
BulkStep(c, outcome) ==
    LET seen == responseInterceptor(outcome, cookies, state)
    IN  /\ c.caller \in {"startAll", "stopAll"}
        /\ BagIn(c, calls)
        /\ outcome \in ListOutcomes(c)
        /\ state' = seen.state
        /\ sessionManager' =
              IF Succeeded(request(outcome))
              THEN [sessionManager EXCEPT
                       !.sessions = handleSessionUpdated(@, Entities(request(outcome).data)[1])]
              ELSE sessionManager
        /\ IF c.rest = <<>>
           THEN /\ cookies' = seen.jar
                /\ calls' = calls (-) SetToBag({c})
           ELSE /\ cookies' = requestInterceptor(
                                 Endpoint(BulkMethod(c.caller),
                                          dashboard.selectedWorkspace.id, Head(c.rest)),
                                 seen.jar, now).jar
                /\ calls' = (calls (-) SetToBag({c}))
                                (+) SetToBag({ListCall(c.caller, Head(c.rest), "-", FALSE,
                                                       Tail(c.rest), NoReply)})
        /\ last' = Ran("bulkStep", IF c.rest = <<>> THEN "done" ELSE "next",
                       Answer(outcome), <<>>)
        /\ UNCHANGED <<now, mounted, server, dashboard, workspaceList, requests>>
        /\ HomeRenders

\* ---- the specification of the list controllers
\* Dashboard as rendered for a logged-in user: the token of the login in the
\* Token Store, the backend holding its mock data, and either the workspaces
\* tab or the sessions tab of the selected workspace just opened, the load of
\* its mount effect in flight.
LoggedInJars == {setToken(EmptyJar, token, toISOString(TokenLifetime)) : token \in Tokens}

OpenTabs ==
    {DashboardInitial, [activeTab |-> "sessions", selectedWorkspace |-> SeedWorkspace]}

MountLoad(tab) ==
    IF tab.activeTab = "workspaces"
    THEN [method |-> "getWorkspaces", wsId |-> NoId,
          call |-> ListCall("loadWorkspaces", NoId, "-", FALSE, <<>>, NoReply)]
    ELSE [method |-> "getSessions", wsId |-> tab.selectedWorkspace.id,
          call |-> ListCall("loadSessions", NoId, "-", FALSE, <<>>, NoReply)]

InitLists ==
    /\ now = 0
    /\ state = authReducer(authReducer(initialState, AUTH_START), AUTH_SUCCESS("admin"))
    /\ mounted = TRUE
    /\ last = Ran("init", "-", "-", <<>>)
    /\ server = SeedServer
    /\ dashboard \in OpenTabs
    /\ workspaceList = WorkspaceListInitial
    /\ sessionManager = SessionManagerInitial
    /\ requests = 0
    /\ loginForm = NoLoginForm
    /\ interval = IF dashboard.activeTab = "sessions"
                  THEN dashboard.selectedWorkspace.id ELSE NoId
    /\ \E jar \in LoggedInJars :
          cookies = requestInterceptor(
                       Endpoint(MountLoad(dashboard).method, MountLoad(dashboard).wsId, NoId),
                       jar, now).jar
    /\ calls = SetToBag({MountLoad(dashboard).call})

Serves == \E c \in BagToSet(calls) : Serve(c)

WorkspacesLoadedResponds ==
    \E c \in BagToSet(calls) : \E outcome \in ListOutcomes(c) : WorkspacesLoaded(c, outcome)

WorkspaceCreatedResponds ==
    \E c \in BagToSet(calls) : \E outcome \in ListOutcomes(c) : WorkspaceCreated(c, outcome)

WorkspaceDeletedResponds ==
    \E c \in BagToSet(calls) : \E outcome \in ListOutcomes(c) : WorkspaceDeleted(c, outcome)

SessionsLoadedResponds ==
    \E c \in BagToSet(calls) : \E outcome \in ListOutcomes(c) : SessionsLoaded(c, outcome)

SessionCreatedResponds ==
    \E c \in BagToSet(calls) : \E outcome \in ListOutcomes(c) : SessionCreated(c, outcome)

SessionUpdatedResponds ==
    \E c \in BagToSet(calls) : \E outcome \in ListOutcomes(c) : SessionUpdated(c, outcome)

SessionDeletedResponds ==
    \E c \in BagToSet(calls) : \E outcome \in ListOutcomes(c) : SessionDeleted(c, outcome)

BulkStepResponds ==
    \E c \in BagToSet(calls) : \E outcome \in ListOutcomes(c) : BulkStep(c, outcome)

NextLists ==
    \/ LoadWorkspaces
    \/ \E formName \in FormNames : CreateWorkspace(formName)
    \/ \E i \in 1..MaxEntries : DeleteWorkspace(i)
    \/ \E silent \in BOOLEAN : LoadSessions(silent)
    \/ \E formName \in FormNames : CreateSession(formName)
    \/ \E i \in 1..MaxEntries : StartSession(i)
    \/ \E i \in 1..MaxEntries : StopSession(i)
    \/ \E i \in 1..MaxEntries : DeleteSession(i)
    \/ StartAll
    \/ StopAll
    \/ Serves
    \/ WorkspacesLoadedResponds
    \/ WorkspaceCreatedResponds
    \/ WorkspaceDeletedResponds
    \/ SessionsLoadedResponds
    \/ SessionCreatedResponds
    \/ SessionUpdatedResponds
    \/ SessionDeletedResponds
    \/ BulkStepResponds

SpecLists == InitLists /\ [][NextLists]_vars

\* ------------------------------------- SessionManager and its polling
\* Dashboard switching between its tabs, SessionManager with its polling
\* interval, overlapping requests, and another client of the backend.
\* Left out here: start, stop and the start-all / stop-all loops.
WorkspaceListCallers == {"loadWorkspaces", "createWorkspace", "deleteWorkspace"}

SessionManagerCallers ==
    {"loadSessions", "createSession", "startSession", "stopSession", "deleteSession",
     "startAll", "stopAll"}

\* The requests in flight once the component that sent those of `callers` is
\* unmounted: nothing is cancelled.
Unmounted(bag, callers) ==
    BagOfAll(LAMBDA c : IF c.caller \in callers THEN [c EXCEPT !.mounted = FALSE] ELSE c,
             bag)

\* A card of WorkspaceList is clicked: handleWorkspaceSelect sets the
\* workspace and the sessions tab; WorkspaceList unmounts and SessionManager
\* mounts, whose effects call loadSessions() and start the interval.
SelectWorkspace(i) ==
    /\ WorkspaceCardsShown
    /\ i \in 1..Len(workspaceList.workspaces)
    /\ BagCardinality(calls) < MaxCalls
    /\ requests < MaxRequests
    /\ requests' = requests + 1
    /\ dashboard' = [activeTab |-> "sessions",
                     selectedWorkspace |-> workspaceList.workspaces[i]]
    /\ sessionManager' = SessionManagerInitial
    /\ interval' = workspaceList.workspaces[i].id
    /\ cookies' = requestInterceptor(
                     Endpoint("getSessions", workspaceList.workspaces[i].id, NoId),
                     cookies, now).jar
    /\ calls' = Unmounted(calls, WorkspaceListCallers)
                    (+) SetToBag({ListCall("loadSessions", NoId, "-", FALSE, <<>>, NoReply)})
    /\ last' = Ran("selectWorkspace", "-", "-", <<>>)
    /\ UNCHANGED <<now, state, mounted, server, workspaceList>>
    /\ loginForm' = Home(state', loginForm)

\* Mutant of ShowWorkspaces: the interval is left running.
ShowWorkspaces_keepsInterval ==
    /\ OnTab("sessions")
    /\ BagCardinality(calls) < MaxCalls
    /\ requests < MaxRequests
    /\ requests' = requests + 1
    /\ dashboard' = [dashboard EXCEPT !.activeTab = "workspaces"]
    /\ workspaceList' = WorkspaceListInitial
    /\ interval' = interval
    /\ cookies' = requestInterceptor(Endpoint("getWorkspaces", NoId, NoId), cookies, now).jar
    /\ calls' = Unmounted(calls, SessionManagerCallers)
                    (+) SetToBag({ListCall("loadWorkspaces", NoId, "-", FALSE, <<>>, NoReply)})
    /\ last' = Ran("showWorkspaces", "-", "-", <<>>)
    /\ UNCHANGED <<now, state, mounted, server, sessionManager>>
    /\ loginForm' = Home(state', loginForm)

\* The Workspaces tab or the back button of SessionManager is clicked:
\* SessionManager unmounts, the cleanup of its polling effect calls
\* clearInterval, and WorkspaceList mounts, whose effect calls loadWorkspaces().
ShowWorkspaces ==
    /\ OnTab("sessions")
    /\ BagCardinality(calls) < MaxCalls
    /\ requests < MaxRequests
    /\ requests' = requests + 1
    /\ dashboard' = [dashboard EXCEPT !.activeTab = "workspaces"]
    /\ workspaceList' = WorkspaceListInitial
    /\ interval' = NoId
    /\ cookies' = requestInterceptor(Endpoint("getWorkspaces", NoId, NoId), cookies, now).jar
    /\ calls' = Unmounted(calls, SessionManagerCallers)
                    (+) SetToBag({ListCall("loadWorkspaces", NoId, "-", FALSE, <<>>, NoReply)})
    /\ last' = Ran("showWorkspaces", "-", "-", <<>>)
    /\ UNCHANGED <<now, state, mounted, server, sessionManager>>
    /\ loginForm' = Home(state', loginForm)

\* The answer to a request of an unmounted component arrives: the response
\* interceptor runs, and the state setters of the continuation do nothing.
Orphaned(c, outcome) ==
    /\ BagIn(c, calls)
    /\ ~c.mounted
    /\ outcome \in ListOutcomes(c)
    /\ cookies' = responseInterceptor(outcome, cookies, state).jar
    /\ state' = responseInterceptor(outcome, cookies, state).state
    /\ calls' = calls (-) SetToBag({c})
    /\ last' = Ran("orphaned", "-", Answer(outcome), <<>>)
    /\ UNCHANGED <<now, mounted, server, dashboard, workspaceList, sessionManager, requests>>
    /\ HomeRenders

OrphanedResponds ==
    \E c \in BagToSet(calls) : \E outcome \in ListOutcomes(c) : Orphaned(c, outcome)

\* Another client of the backend deletes a session.
OtherClientDeletes(i) ==
    /\ i \in 1..Len(server.sessions)
    /\ server' = DeleteSessionRoute(server, server.sessions[i].id).server
    /\ last' = Ran("otherClient", "-", "-", <<>>)
    /\ UNCHANGED <<now, cookies, state, calls, mounted, dashboard, workspaceList,
                   sessionManager, requests, loginForm, interval>>

NextPoll ==
    \/ \E i \in 1..MaxEntries : SelectWorkspace(i)
    \/ ShowWorkspaces
    \/ \E silent \in BOOLEAN : LoadSessions(silent)
    \/ \E formName \in FormNames : CreateSession(formName)
    \/ \E i \in 1..MaxEntries : DeleteSession(i)
    \/ \E i \in 1..MaxEntries : OtherClientDeletes(i)
    \/ Serves
    \/ WorkspacesLoadedResponds
    \/ SessionsLoadedResponds
    \/ SessionCreatedResponds
    \/ SessionDeletedResponds
    \/ OrphanedResponds

SpecPoll == InitLists /\ [][NextPoll]_vars

\* ------------------------------------------------------------- properties
\* The jar holds a token whose expiry is in the future at time t.
HoldsValidToken(jar, t) ==
    /\ ~Falsy(jar.token)
    /\ ~Falsy(jar.expires)
    /\ DateParse(jar.expires) # NaN
    /\ DateParse(jar.expires) > t

\* A call succeeds: a 2xx answer that carries its payload.
CallSucceeded(outcome) == outcome.kind = "ok" /\ outcome.data # NoData

Unauthenticated(s) == ~s.isAuthenticated /\ s.user = Null

\* The step takes the call c out of the requests in flight: c is answered.
Answered(c) == CopiesIn(c, calls') < CopiesIn(c, calls)

\* C1: login returns when the POST /auth/internal fails or when the following
\* GET /auth/me is answered.  It returns true, with the controller
\* authenticated and holding the fetched user, exactly when both calls
\* succeeded; otherwise it returns false and the controller is unauthenticated
\* (no user, not loading) with a non-empty error message.
LoginReturns ==
    [][ \A c \in BagToSet(calls) : Answered(c) =>
          \A outcome \in Outcomes(c, now) :
             /\ LoginResponse(c, outcome) =>
                   IF CallSucceeded(outcome)
                   THEN last'.op # "loginReturn"
                   ELSE /\ last'.op = "loginReturn" /\ last'.ret = "false"
                        /\ Unauthenticated(state') /\ ~state'.isLoading
                        /\ ~Falsy(state'.error)
             /\ LoginMeResponse(c, outcome) =>
                   IF CallSucceeded(outcome)
                   THEN /\ last'.op = "loginReturn" /\ last'.ret = "true"
                        /\ state'.isAuthenticated /\ state'.user = outcome.data[1]
                        /\ ~state'.isLoading /\ state'.error = Null
                   ELSE /\ last'.op = "loginReturn" /\ last'.ret = "false"
                        /\ Unauthenticated(state') /\ ~state'.isLoading
                        /\ ~Falsy(state'.error)
      ]_vars

\* login has returned true: both calls succeeded and the user is held.
LoginReturnedTrue ==
    /\ last.op = "loginReturn" /\ last.ret = "true" /\ last.answer = "ok"
    /\ state.isAuthenticated /\ state.user \in Users

\* C2: checkAuth (run by the mount effect on app start): without a valid
\* token the controller becomes unauthenticated and no request is issued;
\* with one, GET /auth/me is issued carrying the token.  Its success makes
\* the controller authenticated with the returned user; its failure clears
\* the Token Store and leaves the controller unauthenticated with an error
\* message.
CheckAuthOnStart ==
    [][ /\ (Mount \/ CheckAuth) =>
              IF HoldsValidToken(cookies, now)
              THEN /\ calls' = calls (+) SetToBag({Call("checkAuth", Bearer(cookies.token), "-")})
                   /\ state'.isLoading
              ELSE /\ Unauthenticated(state') /\ ~state'.isLoading
                   /\ calls' = calls
        /\ \A c \in BagToSet(calls) : Answered(c) =>
              \A outcome \in Outcomes(c, now) :
                 CheckAuthResponse(c, outcome) =>
                    IF CallSucceeded(outcome)
                    THEN /\ state'.isAuthenticated /\ state'.user = outcome.data[1]
                         /\ ~state'.isLoading
                    ELSE /\ cookies' = EmptyJar
                         /\ Unauthenticated(state') /\ ~state'.isLoading
                         /\ ~Falsy(state'.error)
      ]_vars

\* The GET /auth/me of checkAuth has failed with a server error: the token
\* that was stored is gone and the error is shown.
CheckAuthFailed ==
    /\ last.op = "checkAuthDone" /\ last.answer = "500"
    /\ cookies = EmptyJar
    /\ Unauthenticated(state) /\ ~Falsy(state.error)

\* C3: once a 401 answer to a GET /auth/me or to a workspace or session
\* request has been processed, the Token Store is empty and the controller is
\* unauthenticated with no user and not loading, as logout() leaves them,
\* whichever caller awaited the request.
UnauthorizedLogsOut ==
    [][ \A c \in BagToSet(calls) : Answered(c) => \A outcome \in Outcomes(c, now) :
          ( /\ outcome.kind = "status" /\ outcome.status = 401
            /\ \/ CheckAuthResponse(c, outcome)
               \/ LoginMeResponse(c, outcome)
               \/ Response(c, outcome) ) =>
                /\ cookies' = logoutJar(cookies)
                /\ cookies' = EmptyJar
                /\ Unauthenticated(state')
                /\ state'.isLoading = logoutState(state).isLoading
                /\ c.caller = "resource" => state' = logoutState(state)
      ]_vars

\* A workspace or session request has been answered 401.
ResourceAnswered401 ==
    /\ last.op = "response" /\ last.answer = "401"
    /\ cookies = EmptyJar
    /\ Unauthenticated(state) /\ ~state.isLoading

\* C4 (as claimed): whenever the controller is authenticated, holding a user,
\* the Token Store holds a token whose expiry is in the future.
UserOnlyWithValidToken ==
    (state.isAuthenticated \/ state.user # Null) => HoldsValidToken(cookies, now)

\* C5 (as claimed): a run of the token check that finds no valid token while
\* the controller is authenticated leaves the controller unauthenticated.
TickLogsOut ==
    [][ (Tick /\ ~HoldsValidToken(cookies, now) /\ state.isAuthenticated) =>
            ~state'.isAuthenticated ]_vars

\* C6: logout(), in whichever state it is called, leaves the Token Store
\* empty and the controller unauthenticated with no user, not loading and no
\* error message; a second logout() changes nothing of that.
LoggedOutState ==
    [user |-> Null, isAuthenticated |-> FALSE, isLoading |-> FALSE, error |-> Null]

LogoutClearsAll ==
    [][ Logout =>
          /\ cookies' = EmptyJar
          /\ state' = LoggedOutState
          /\ logoutJar(cookies') = cookies'
          /\ logoutState(state') = state' ]_vars

\* logout() has run while a request was in flight.
LoggedOutWithCallInFlight ==
    /\ last.op = "logout"
    /\ cookies = EmptyJar /\ state = LoggedOutState
    /\ calls # EmptyBag

\* C7: clearError() sets the error message to null and changes nothing else:
\* not the user, the authenticated flag, the loading flag or the Token Store.
ClearErrorFrame ==
    [][ ClearError =>
          /\ state'.error = Null
          /\ state'.user = state.user
          /\ state'.isAuthenticated = state.isAuthenticated
          /\ state'.isLoading = state.isLoading
          /\ cookies' = cookies ]_vars

\* clearError() has run while the controller was loading with a token stored.
ClearedErrorWhileLoading ==
    /\ last.op = "clearError"
    /\ state.isLoading /\ state.error = Null
    /\ HoldsValidToken(cookies, now)

\* C8: after setToken(token, expiresAt) with expiresAt in the future,
\* isAuthenticated() returns true (and leaves the jar alone) at every time
\* before the expiry, and at or after the expiry it returns false and leaves
\* neither cookie in the jar.
IsAuthenticatedUntilExpiry ==
    [][ \A token \in Tokens : \A e \in 0..(MaxTime + TokenLifetime) :
          /\ (StoreSetToken(token, toISOString(e)) /\ e > now) =>
                \A t \in now..(MaxTime + TokenLifetime + 1) :
                   tokenIsAuthenticated(cookies', t) =
                      IF t < e THEN [ret |-> TRUE, jar |-> cookies']
                      ELSE [ret |-> FALSE, jar |-> EmptyJar]
          /\ (StoreIsAuthenticated /\ cookies = setToken(EmptyJar, token, toISOString(e))) =>
                IF now < e
                THEN last'.ret = "true" /\ cookies' = cookies
                ELSE last'.ret = "false" /\ cookies' = EmptyJar
      ]_vars

\* isAuthenticated() has been called at or after the expiry of a stored
\* token: it returned false and removed the cookies.
ExpiredTokenRemoved ==
    /\ last.op = "isAuthenticated" /\ last.ret = "false" /\ last.answer = "cleared"
    /\ cookies = EmptyJar
    /\ now > 0

\* C9 (as claimed): getToken() returns the token only when both entries are
\* present and the expiry is later than now; in every other case it returns
\* null and neither entry remains in the jar.
GetTokenClearsUnlessValid ==
    [][ StoreGetToken =>
          /\ last'.ret # Null => (HoldsValidToken(cookies, now) /\ last'.ret = cookies.token)
          /\ ~HoldsValidToken(cookies, now) => (last'.ret = Null /\ cookies' = EmptyJar)
      ]_vars

\* C9 (amended): getToken() returns the token, leaving the jar alone, exactly
\* when both entries are present and the expiry has not passed (an expiry
\* that is not a date never passes); when both are present and the expiry is
\* at or before now it returns null and removes both entries; when an entry
\* is missing or empty it returns null and leaves the jar as it is.
GetTokenContract ==
    [][ StoreGetToken =>
          LET present == ~Falsy(cookies.token) /\ ~Falsy(cookies.expires)
              passed == DateParse(cookies.expires) # NaN /\ DateParse(cookies.expires) <= now
          IN  /\ (present /\ ~passed) => (last'.ret = cookies.token /\ cookies' = cookies)
              /\ (present /\ passed) => (last'.ret = Null /\ cookies' = EmptyJar)
              /\ ~present => (last'.ret = Null /\ cookies' = cookies)
      ]_vars

\* getToken() has returned null for a jar with one entry missing, and the
\* other entry is still there.
LoneEntryLeft ==
    /\ last.op = "getToken" /\ last.ret = Null /\ last.answer = "kept"
    /\ cookies # EmptyJar
    /\ Falsy(cookies.token) # Falsy(cookies.expires)

\* C10 (as claimed): a request leaves with Authorization: Bearer <token>
\* exactly when its method is not login, healthCheck or getVersion and the
\* Token Store holds a token whose expiry is later than the time of dispatch.
MethodOf(c, ran) ==
    CASE c.caller = "login" -> "login"
      [] c.caller \in {"checkAuth", "loginMe"} -> "getCurrentUser"
      [] OTHER -> ran.op

RequestsCarryToken ==
    [][ \A c \in BagToSet(calls') :
          CopiesIn(c, calls') > CopiesIn(c, calls) =>
             c.Authorization =
                IF /\ MethodOf(c, last') \notin {"login", "healthCheck", "getVersion"}
                   /\ HoldsValidToken(cookies', now)
                THEN Bearer(cookies'.token)
                ELSE NoHeader
      ]_vars

\* ------------------------------------------- properties of the gateway calls
\* The step consumes outcome as the answer to the call c, whoever awaited it.
Answers(c, outcome) ==
    \/ CheckAuthResponse(c, outcome)
    \/ LoginResponse(c, outcome)
    \/ LoginMeResponse(c, outcome)
    \/ Response(c, outcome)

\* {success: true, data} or {success: false, error: {message, code}}.
UniformShape(response) ==
    \/ response.success /\ response.error = NoError
    \/ /\ ~response.success /\ response.data = NoData
       /\ ~Falsy(response.error.message) /\ ~Falsy(response.error.code)

\* C11: whatever the answer to a gateway call (2xx, error status, no
\* response, failure before sending), the method resolves with
\* {success: true, data} carrying the response body, or with
\* {success: false, error} carrying a non-empty message and code; it is
\* successful exactly for a 2xx answer.
UniformResult ==
    [][ \A c \in BagToSet(calls) : Answered(c) =>
          \A outcome \in Outcomes(c, now) :
             Answers(c, outcome) =>
                /\ UniformShape(request(outcome))
                /\ request(outcome).success = (outcome.kind = "ok")
                /\ outcome.kind = "ok" => request(outcome).data = outcome.data
      ]_vars

\* A gateway method has resolved for a request that failed before it was sent.
SetupFailureReturned ==
    /\ last.op = "response" /\ last.answer = "setup"
    /\ UniformShape(request(SetupOutcome))

\* C12: the code of a failed result is the status as a string when a
\* response was received, NETWORK_ERROR when the request was sent and no
\* response came, UNKNOWN_ERROR otherwise.
ErrorCodeByKind ==
    [][ \A c \in BagToSet(calls) : Answered(c) =>
          \A outcome \in Outcomes(c, now) :
             (Answers(c, outcome) /\ outcome.kind # "ok") =>
                request(outcome).error.code =
                   CASE outcome.kind = "status" -> ToString(outcome.status)
                     [] outcome.kind = "noresponse" -> "NETWORK_ERROR"
                     [] OTHER -> "UNKNOWN_ERROR"
      ]_vars

\* checkAuth has resumed after a GET /auth/me that got no response.
NoResponseReturned ==
    /\ last.op = "checkAuthDone" /\ last.answer = "noresponse"
    /\ request(NoResponseOutcome).error.code = "NETWORK_ERROR"

LoginStoresToken ==
    [][ \A c \in BagToSet(calls) : Answered(c) =>
          \A outcome \in Outcomes(c, now) :
             LoginResponse(c, outcome) =>
                /\ CallSucceeded(outcome) =>
                      /\ cookies' = [token |-> outcome.data[1], expires |-> outcome.data[2]]
                      /\ BagIn(Call("loginMe", Bearer(outcome.data[1]), "-"), calls')
                /\ (outcome.kind = "status" /\ outcome.status = 401) =>
                      cookies' = EmptyJar
      ]_vars

\* The token of a successful login is stored and the GET /auth/me of login
\* is in flight with it.
LoginTokenStored ==
    /\ last.op = "loginStored"
    /\ HoldsValidToken(cookies, now)
    /\ BagIn(Call("loginMe", Bearer(cookies.token), "-"), calls)

\* ---- the list controllers
\* The call c is a load in flight that the backend has answered successfully.
LoadAnswered(c) ==
    /\ c.caller \in {"loadWorkspaces", "loadSessions"}
    /\ c.reply # NoReply
    /\ c.reply.kind = "ok"

\* C15: a load that succeeds puts the payload of the backend in the place of
\* the collection, whatever the collection held; the payload is the whole
\* collection the backend holds, and a load does not change the backend. So
\* two loads served with no mutation between them leave equal collections.
LoadReplaces ==
    [][\A c \in BagToSet(calls) :
          /\ LoadAnswered(c) =>
                /\ WorkspacesLoaded(c, c.reply) =>
                      workspaceList'.workspaces = Entities(c.reply.data)
                /\ SessionsLoaded(c, c.reply) =>
                      sessionManager'.sessions = Entities(c.reply.data)
          /\ (Serve(c) /\ c.caller = "loadWorkspaces") =>
                /\ server' = server
                /\ BagIn([c EXCEPT !.reply = OkOutcome(Body(server.workspaces))], calls')
          /\ (Serve(c) /\ c.caller = "loadSessions") =>
                /\ server' = server
                /\ BagIn([c EXCEPT !.reply = OkOutcome(Body(server.sessions))], calls')
      ]_vars

\* The load of the mount effect and a silent load after it have both
\* succeeded, nothing else was requested, and the collection is the backend's.
TwoLoadsSucceeded ==
    /\ last = Ran("sessionsLoaded", "silent", "ok", <<>>)
    /\ requests = 1
    /\ calls = EmptyBag
    /\ sessionManager.error = Null
    /\ sessionManager.sessions = server.sessions
    /\ Len(sessionManager.sessions) = 2

\* C16: a load that fails leaves the collection as it was; it sets the error
\* to a message unless it is silent; a silent load leaves the error as it was
\* when it starts and when it ends, however it ends.
FailedLoadKeeps ==
    [][/\ LoadSessions(TRUE) => sessionManager' = sessionManager
       /\ \A c \in BagToSet(calls) :
             c.caller \in {"loadWorkspaces", "loadSessions"} =>
                \A outcome \in ListOutcomes(c) :
                   /\ WorkspacesLoaded(c, outcome) /\ outcome.kind # "ok" =>
                         /\ workspaceList'.workspaces = workspaceList.workspaces
                         /\ ~Falsy(workspaceList'.error)
                   /\ SessionsLoaded(c, outcome) =>
                         /\ outcome.kind # "ok" =>
                               /\ sessionManager'.sessions = sessionManager.sessions
                               /\ ~c.silent => ~Falsy(sessionManager'.error)
                         /\ c.silent => sessionManager'.error = sessionManager.error
      ]_vars

\* A silent load has failed on a list that was loaded before, and no error
\* is shown.
SilentLoadFailed ==
    /\ last = Ran("sessionsLoaded", "silent", "500", <<>>)
    /\ sessionManager.sessions # <<>>
    /\ sessionManager.error = Null

\* The call c is in flight and the backend has answered it successfully.
OkAnswered(c) == c.reply # NoReply /\ c.reply.kind = "ok"

\* C17: when a create resolves successfully the collection is the previous
\* one with one entry appended, the entity the backend returned: the backend
\* made its id (the request carried none) and kept the name submitted.  When
\* a delete resolves successfully the collection is the previous one without
\* the entries of that id, the others as they were and in their order.
CreateAppendsDeleteRemoves ==
    [][\A c \in BagToSet(calls) :
          /\ (c.caller = "createWorkspace" /\ Serve(c)) =>
                /\ c.id = NoId
                /\ BagIn([c EXCEPT !.reply = OkOutcome(Body(
                              <<Workspace(<<"ws-" \o DateNow(now)>>, c.name)>>))], calls')
          /\ (c.caller = "createSession" /\ Serve(c)) =>
                /\ c.id = NoId
                /\ BagIn([c EXCEPT !.reply = OkOutcome(Body(
                              <<Session(<<"sess-" \o DateNow(now)>>, c.name, "stopped")>>))],
                         calls')
          /\ OkAnswered(c) =>
                /\ WorkspaceCreated(c, c.reply) =>
                      /\ workspaceList'.workspaces =
                            Append(workspaceList.workspaces, Entities(c.reply.data)[1])
                      /\ Entities(c.reply.data)[1].name = c.name
                /\ SessionCreated(c, c.reply) =>
                      /\ sessionManager'.sessions =
                            Append(sessionManager.sessions, Entities(c.reply.data)[1])
                      /\ Entities(c.reply.data)[1].name = c.name
                /\ WorkspaceDeleted(c, c.reply) =>
                      workspaceList'.workspaces =
                         SelectSeq(workspaceList.workspaces, LAMBDA e : e.id # c.id)
                /\ SessionDeleted(c, c.reply) =>
                      sessionManager'.sessions =
                         SelectSeq(sessionManager.sessions, LAMBDA e : e.id # c.id)
      ]_vars

\* The workspace "Dev" was created after the load and the seeded workspace
\* then deleted: the created one is what the list holds.
CreatedThenDeleted ==
    /\ last = Ran("workspaceDeleted", "-", "ok", <<>>)
    /\ workspaceList.workspaces = <<Workspace(<<"ws-" \o DateNow(0)>>, "Dev")>>
    /\ server.workspaces = workspaceList.workspaces

\* The status a start or a stop leaves a session with.
StatusAfter(caller) == IF caller \in {"startSession", "startAll"} THEN "running" ELSE "stopped"

\* C18: when a start or a stop succeeds (from a card or from a start-all /
\* stop-all loop), the session the backend returned has the id requested and
\* the status running after a start, stopped after a stop; the collection
\* keeps its length, every entry of that id becomes the returned session, and
\* every other entry stays where it was; with no entry of that id the
\* collection is unchanged.
UpdateReplacesInPlace ==
    [][\A c \in BagToSet(calls) :
          (/\ c.caller \in {"startSession", "stopSession", "startAll", "stopAll"}
           /\ OkAnswered(c)
           /\ SessionUpdated(c, c.reply) \/ BulkStep(c, c.reply)) =>
             LET updated == Entities(c.reply.data)[1]
                 before == sessionManager.sessions
                 after == sessionManager'.sessions
             IN  /\ updated.id = c.id
                 /\ updated.status = StatusAfter(c.caller)
                 /\ Len(after) = Len(before)
                 /\ \A i \in 1..Len(before) :
                       after[i] = IF before[i].id = c.id THEN updated ELSE before[i]
                 /\ (\A i \in 1..Len(before) : before[i].id # c.id) => after = before
      ]_vars

\* A start-all loop has started sess-2 on the backend, and its answer came
\* after sess-2 had been deleted from the list: the list holds sess-1 alone.
UpdateWithoutEntry ==
    /\ last = Ran("bulkStep", "done", "ok", <<>>)
    /\ sessionManager.sessions = <<Session(<<"sess-1">>, "Web Server", "running")>>
    /\ server.sessions = sessionManager.sessions

\* The entries of a list.
Entries(entities) == {entities[i] : i \in 1..Len(entities)}

\* C19: a collection changes only in the step in which a call resolves with
\* the successful answer of the backend, and every entry it then holds was in
\* it before or is in the payload of that answer.  Sending a request, the
\* backend processing it, and a call that fails leave both collections as
\* they were.
ChangesOnSuccessOnly ==
    [][(\/ workspaceList'.workspaces # workspaceList.workspaces
        \/ sessionManager'.sessions # sessionManager.sessions) =>
          /\ last'.answer = "ok"
          /\ \E c \in BagToSet(calls) :
                /\ OkAnswered(c)
                /\ Answered(c)
                /\ Entries(workspaceList'.workspaces) \subseteq
                      Entries(workspaceList.workspaces) \cup Entries(Entities(c.reply.data))
                /\ Entries(sessionManager'.sessions) \subseteq
                      Entries(sessionManager.sessions) \cup Entries(Entities(c.reply.data))
      ]_vars

\* The backend deleted the workspace, the answer was lost, and the list
\* still holds it.
DeleteFailedListKept ==
    /\ last = Ran("workspaceDeleted", "-", "noresponse", <<>>)
    /\ server.workspaces = <<>>
    /\ workspaceList.workspaces = <<SeedWorkspace>>

\* The ids of the sessions of the list with the status, in list order.
Matching(status) ==
    LET picked == SelectSeq(sessionManager.sessions, LAMBDA session : session.status = status)
    IN  [i \in 1..Len(picked) |-> picked[i].id]

\* The call of a start-all / stop-all loop for the first of `ids`, the others
\* still to come.
LoopCall(caller, ids) == ListCall(caller, Head(ids), "-", FALSE, Tail(ids), NoReply)

\* C20: start-all (stop-all) picks the sessions that are stopped (running)
\* in the list, in list order: with none it sends nothing, otherwise it sends
\* the call for the first.  When the call of a loop resolves, with whatever
\* answer, the call for the next session picked is sent, and none when all
\* have been visited: one call for each session picked, one at a time, in
\* order.  A successful answer is applied to the list in that step; a failed
\* one leaves the list as it was.
BulkCallsInOrder ==
    [][/\ StartAll =>
             calls' = IF Matching("stopped") = <<>> THEN calls
                      ELSE calls (+) SetToBag({LoopCall("startAll", Matching("stopped"))})
       /\ StopAll =>
             calls' = IF Matching("running") = <<>> THEN calls
                      ELSE calls (+) SetToBag({LoopCall("stopAll", Matching("running"))})
       /\ \A c \in BagToSet(calls) :
             c.caller \in {"startAll", "stopAll"} =>
                \A outcome \in ListOutcomes(c) :
                   BulkStep(c, outcome) =>
                      /\ calls' = IF c.rest = <<>> THEN calls (-) SetToBag({c})
                                  ELSE (calls (-) SetToBag({c}))
                                          (+) SetToBag({LoopCall(c.caller, c.rest)})
                      /\ sessionManager'.sessions =
                            IF outcome.kind = "ok"
                            THEN [i \in 1..Len(sessionManager.sessions) |->
                                    IF sessionManager.sessions[i].id = c.id
                                    THEN Entities(outcome.data)[1]
                                    ELSE sessionManager.sessions[i]]
                            ELSE sessionManager.sessions
      ]_vars

\* The first call of a start-all loop over two stopped sessions has failed,
\* and the call for the second is in flight.
LoopGoesOnAfterFailure ==
    /\ last = Ran("bulkStep", "next", "500", <<>>)
    /\ BagIn(LoopCall("startAll", <<<<"sess-2">>>>), calls)
    /\ \A i \in 1..Len(sessionManager.sessions) : sessionManager.sessions[i].status = "stopped"

\* ---- the states of the Auth State Controller
\* C23 (as claimed): the controller is never loading while authenticated,
\* holding a user.
NeverLoadingWhileAuthenticated ==
    ~(state.isLoading /\ (state.isAuthenticated \/ state.user # Null))

\* C25: in every state a user is held exactly when the authenticated flag is
\* set, and an error message is present only when the controller is
\* unauthenticated and not loading.
UserIffAuthenticated ==
    /\ (state.user # Null) <=> state.isAuthenticated
    /\ ~Falsy(state.error) => (~state.isAuthenticated /\ ~state.isLoading)

\* The check on app start has failed: an error message is held, no user.
StartCheckFailed ==
    /\ last.op = "checkAuthDone"
    /\ ~Falsy(state.error)
    /\ state.user = Null

\* C28 (as claimed): whenever login has returned false, the Token Store holds
\* no token.
FailedLoginLeavesNoToken ==
    (last.op = "loginReturn" /\ last.ret = "false") => Falsy(cookies.token)

\* C29 (as claimed), for the step that follows: right after logout() or a
\* logout signal has been processed the controller is not made authenticated
\* by whatever comes next (an invocation of login or checkAuth only starts
\* loading); and right after a login has stored its token, the answer to a
\* workspace or session request, which was issued before, leaves a token in
\* the Token Store.
LogoutIsFinal ==
    [][/\ (\/ last.op = "logout"
           \/ (last.op = "response" /\ last.answer = "401")) =>
             ~state'.isAuthenticated
       /\ last.op = "loginStored" =>
             \A c \in BagToSet(calls) :
                (c.caller = "resource" /\ Answered(c)) => ~Falsy(cookies'.token)
      ]_vars

\* C24: when every request is answered in the end, the controller leaves
\* the loading state whenever it is in it (after app start, after every
\* login); and no state is an end: logout() takes an authenticated
\* controller to unauthenticated, a login that returns true takes the
\* controller to authenticated, and once the app is mounted logout() can
\* always be called and login() can be called when no request is in flight.
LoadingEnds ==
    /\ state.isLoading ~> ~state.isLoading
    /\ [][/\ (Logout /\ state.isAuthenticated) =>
                (Unauthenticated(state') /\ ~state'.isLoading)
          /\ (last'.op = "loginReturn" /\ last'.ret = "true") =>
                (state'.isAuthenticated /\ ~state'.isLoading)]_vars
    /\ [](mounted => ENABLED Logout)
    /\ []((mounted /\ calls = EmptyBag) =>
             \A cred \in Credentials : ENABLED Login(cred))

\* A login has failed and the controller has left the loading state for
\* unauthenticated.
LoginLeftLoading ==
    /\ last.op = "loginReturn" /\ last.ret = "false"
    /\ ~state.isLoading
    /\ Unauthenticated(state)
    /\ calls = EmptyBag

\* C30 (as claimed), for the step that follows a failed login: the error
\* message the login left in the auth state is removed only by the effect
\* that follows an edit of a field, by a submit (login starts) or by a
\* logout or logout signal; the effect of the first render of the form,
\* shown again after the spinner, never removes it.
ErrorStaysOnLoginForm ==
    [][(/\ last.op = "loginReturn" /\ last.ret = "false"
        /\ ~Falsy(state.error) /\ Falsy(state'.error)) =>
          \/ last'.op = "formEffect" /\ last'.ret = "edit"
          \/ last'.op \in {"login", "logout", "tick", "response",
                           "checkAuthDone", "loginStored", "loginReturn"}
      ]_vars

\* C21: the polling interval runs exactly while SessionManager is rendered
\* for a selected workspace, and for that workspace; every tick of it can
\* issue a silent load, whatever is in flight; and a silent load is only
\* ever issued for the workspace selected at that moment: once the sessions
\* tab is left (the selection can only change from the workspaces tab) or
\* Dashboard is unmounted, the interval is cleared.
PollingFollowsSelection ==
    /\ [](interval = IF OnTab("sessions") /\ dashboard.selectedWorkspace # NoWorkspace
                     THEN dashboard.selectedWorkspace.id ELSE NoId)
    /\ []((interval # NoId /\ BagCardinality(calls) < MaxCalls /\ requests < MaxRequests)
            => ENABLED LoadSessions(TRUE))
    /\ [][(last'.op = "loadSessions" /\ last'.ret = "silent") =>
             (OnTab("sessions") /\ interval = dashboard.selectedWorkspace.id)]_vars

\* The sessions tab has just been left while a silent load was in flight:
\* the interval is cleared and the load belongs to no mounted component.
PollingStopped ==
    /\ last.op = "showWorkspaces"
    /\ interval = NoId
    /\ \E c \in BagToSet(calls) : c.caller = "loadSessions" /\ c.silent /\ ~c.mounted

\* C22: when a load of SessionManager is answered successfully, the
\* collection becomes the payload of that load, whether or not another load
\* of it is still in flight or was answered before, and whichever was sent
\* first: of two overlapping loads the one that resolves last decides.
LastLoadWins ==
    [][\A c \in BagToSet(calls) :
          (/\ last'.op = "sessionsLoaded" /\ last'.answer = "ok"
           /\ c.caller = "loadSessions" /\ c.mounted /\ c.reply # NoReply
           /\ Answered(c)) =>
             /\ sessionManager'.sessions = Entities(c.reply.data)
             /\ \A d \in BagToSet(calls') : d.caller = "loadSessions" => d \in BagToSet(calls)
      ]_vars

\* The poll load, sent second, has been answered first; the load of the
\* mount effect is still in flight with an answer that differs from the
\* collection now shown.
NewerLoadResolvedFirst ==
    /\ last.op = "sessionsLoaded" /\ last.ret = "silent" /\ last.answer = "ok"
    /\ requests = 1
    /\ \E d \in BagToSet(calls) :
          /\ d.caller = "loadSessions" /\ ~d.silent /\ d.mounted
          /\ d.reply # NoReply
          /\ Entities(d.reply.data) # sessionManager.sessions

\* C26 (as claimed): the collection of SessionManager never holds two
\* entries with the same session id.
OneEntryPerSession ==
    \A i, j \in 1..Len(sessionManager.sessions) :
        sessionManager.sessions[i].id = sessionManager.sessions[j].id => i = j

\* C27 (as claimed), for the step that follows: when the delete of a session
\* has just been answered successfully and its entry removed, the next step
\* does not bring an entry with that id into the collection.
DeletedStaysDeleted ==
    [][(/\ last.op = "sessionDeleted" /\ last.answer = "ok"
        /\ ~HasId(sessionManager.sessions, last.url)) =>
          ~HasId(sessionManager'.sessions, last.url)]_vars

====
